---------------------------- MODULE Spec2Model ----------------------------
(* Model of the retrieval-and-answer pipeline of ferefek_ai_back:          *)
(* the shared OpenAIClient (rate pacing, embedding, query refinement,      *)
(* answer synthesis), QdrantService.similaritySearch, the PostgresService  *)
(* chat ledger and the POST /chat handler, run by concurrent requests;     *)
(* and of the ingestion script: createMultiLevelChunks, the oversize       *)
(* filter and QdrantService.storeChunksWithEmbeddings.                      *)
(*                                                                         *)
(* Time is kept relative: instead of Date.now() and the absolute lastCall  *)
(* the model keeps Date.now() - lastCall (lastCallAge), saturated at       *)
(* minDelayMs, beyond which rateLimit's wait is 0 whatever the age; a      *)
(* sleep is a countdown timer that Tick decrements.                        *)
EXTENDS Integers, Sequences, FiniteSets, TLC

\* ------------------------------------------------------------------ bounds
TickMs == 2500            \* granularity of the passage of time
MaxAttempts == 3          \* attempts of one provider function are counted up to this
MaxExchanges == 2         \* requests of one conversation
MaxPages == 2             \* pages of a document handed to createMultiLevelChunks
MaxParagraphs == 3        \* blank-line-separated pieces of a page
MaxPoints == 12           \* points the service that numbers its points hands ids to
MaxFew == 24              \* the small numbers of points a collection is cleared with
MaxOver == 2              \* points beyond the limit of clearCollection's scroll

\* ------------------------------------------------------- program constants
minDelayMs == 1000        \* new OpenAIClient(1000)
RetryDelayMs == 5000      \* sleep(5000) after a 429
EMBEDDING_DIM == 3072
EMBEDDING_MODEL == "text-embedding-3-large"
GENERATIVE_MODEL == "gpt-4.1"
MAX_TOKENS_PER_EMBEDDING == 8000
OtherDim == 1536          \* a vector length that is not EMBEDDING_DIM
HistoryLimit == 20        \* getChatHistory(sessionId, 20)

Requests == {"r1", "r2"}  \* the POST /chat requests, which run concurrently
None == "none"            \* no string
Nil == [nil |-> TRUE]     \* no record
NoCount == -1             \* no count: the body of an error response has none
NoSession == "undefined"
Sessions == {"s1"}
Prompts == {"", "q"}
APOLOGY == "Sorry, I encountered an error while generating the response."
UNABLE == "Unable to generate response."
GatedFns == {"refine", "embed", "synth"}

\* what the provider can answer to a completion request: content and usage
Completions == {[content |-> "text", tokens |-> 7], [content |-> "", tokens |-> 7]}
\* what the provider can answer to an embedding request: vector length and usage
Embeddings == {[dim |-> EMBEDDING_DIM, tokens |-> 5], [dim |-> OtherDim, tokens |-> 5]}
\* what the vector store can answer to a query
QueryResults == {<< >>, <<"doc1", "doc2">>}
\* error.status of a provider failure: 429 is throttling
ErrorStatuses == {429, 500}

VARIABLES
  pc,             \* per request: the stage of the /chat handler it is in
  phase,          \* per request: position inside a provider function
  timer,          \* per request: ms left of the sleep it is in
  attempts,       \* per request: provider calls issued by the current function (saturating)
  input,          \* per request: the parsed body {prompt, sessionId}
  chatHistory,    \* per request: the rows read from the ledger
  cleanedPrompt,  \* per request: result of generateCleanUserPrompt
  promptEmbedding,\* per request: result of createEmbedding
  results,        \* per request: result of similaritySearch
  answer,         \* per request: result of generateAnswerFromResults
  finalSessionId, \* per request: the session id storeChatConversation resolved
  response,       \* per request: the HTTP response
  lastCallAge,    \* Date.now() - openAIClient.lastCall, saturated at minDelayMs
  ledger,         \* the chat_history table, in insertion order
  log,            \* history, per request: what happened to it
  ipc,            \* the ingestion script: between two files ("idle") or with the chunks of a file built
  source,         \* the ingestion script: the file being processed
  documents,      \* the ingestion script: what createMultiLevelChunks returned
  points,         \* the vector collection: the points it holds
  idCounter,      \* QdrantService.idCounter (the variant that numbers its points)
  stored,         \* history: the name of the file of the latest successful upsert
  reply,          \* the response of the latest GET /history, GET /all or POST /feedback
  retrieved,      \* the latest call of similaritySearch by a caller of its own: arguments, query, result
  collectionInfo, \* the vector collection: its vectors config, or Nil when it does not exist
  spc,            \* setupQdrant: its position, or how its latest run ended
  clearing        \* clearCollection: its position, and the point ids its scroll returned

\* the state of the chat server and the state of the ingestion script
chat == <<pc, phase, timer, attempts, input, chatHistory, cleanedPrompt,
          promptEmbedding, results, answer, finalSessionId, response,
          lastCallAge, ledger, log>>
ingest == <<ipc, source, documents, points, idCounter, stored>>
\* the other endpoints of the server, and the vector store seen on its own
api == <<reply>>
vectorStore == <<retrieved, collectionInfo, spc, clearing>>

vars == <<chat, ingest, api, vectorStore>>

local == <<input, chatHistory, cleanedPrompt, promptEmbedding, results,
           answer, finalSessionId, response>>

Max(a, b) == IF a >= b THEN a ELSE b
Min(a, b) == IF a <= b THEN a ELSE b

EmptyLog == [fn |-> None,                 \* the provider function that issued the latest call
             outcomes |-> {},              \* what the provider answered to the calls of fn
             gates |-> 0,                  \* rateLimit passes of fn (saturating)
             sinceThrottle |-> RetryDelayMs, \* ms since the last 429 (saturating)
             earlyRetry |-> FALSE,         \* a retry went out before the backoff had elapsed
             queryIssued |-> FALSE,        \* the similarity query was sent to the store
             writes |-> << >>,             \* <<role, stored?>> of each INSERT attempted
             steps |-> << >>,              \* the external steps of the request, in the order taken
             request |-> Nil]              \* the provider request in flight: what it carries

Init ==
  /\ pc = [r \in Requests |-> "idle"]
  /\ phase = [r \in Requests |-> "-"]
  /\ timer = [r \in Requests |-> 0]
  /\ attempts = [r \in Requests |-> 0]
  /\ input = [r \in Requests |-> Nil]
  /\ chatHistory = [r \in Requests |-> << >>]
  /\ cleanedPrompt = [r \in Requests |-> Nil]
  /\ promptEmbedding = [r \in Requests |-> Nil]
  /\ results = [r \in Requests |-> Nil]
  /\ answer = [r \in Requests |-> Nil]
  /\ finalSessionId = [r \in Requests |-> None]
  /\ response = [r \in Requests |-> Nil]
  /\ lastCallAge = minDelayMs      \* lastCall = 0 and Date.now() is far beyond minDelayMs
  /\ ledger = << >>
  /\ log = [r \in Requests |-> EmptyLog]
  /\ ipc = "idle"
  /\ source = Nil
  /\ documents = << >>
  /\ points = {}
  /\ idCounter = 0
  /\ stored = None
  /\ reply = Nil
  /\ retrieved = Nil
  /\ collectionInfo = [size |-> EMBEDDING_DIM]   \* setupQdrant ran when the process started
  /\ spc = [at |-> "idle", again |-> FALSE, dropped |-> FALSE]
  /\ clearing = [at |-> "idle", pointIds |-> {}]

\* ------------------------------------------------------------ the ledger
SelectIdx(seq, Test(_)) ==
  LET F[i \in 0..Len(seq)] ==
        IF i = 0 THEN << >>
        ELSE IF Test(seq[i]) THEN Append(F[i - 1], i) ELSE F[i - 1]
  IN F[Len(seq)]

Reverse(seq) == [i \in 1..Len(seq) |-> seq[Len(seq) + 1 - i]]

\* getChatHistory with ORDER BY created_at ascending
getChatHistory_OldestFirst(s, limit) ==
  IF s = NoSession THEN << >>
  ELSE LET ids == SelectIdx(ledger, LAMBDA row : row.session_id = s)
       IN SubSeq(ids, 1, Min(limit, Len(ids)))

\* getChatHistory without its WHERE clause
getChatHistory_AnySession(s, limit) ==
  LET ids == Reverse(SelectIdx(ledger, LAMBDA row : TRUE))
  IN SubSeq(ids, 1, Min(limit, Len(ids)))

\* SELECT * FROM chat_history WHERE session_id = s ORDER BY created_at DESC LIMIT limit
\* (row ids, most recent first)
getChatHistory(s, limit) ==
  IF s = NoSession THEN << >>
  ELSE LET ids == Reverse(SelectIdx(ledger, LAMBDA row : row.session_id = s))
       IN SubSeq(ids, 1, Min(limit, Len(ids)))

\* the sessions that have a row
AllSessions == {ledger[i].session_id : i \in 1..Len(ledger)}

\* Row with an answer_val of good in the row it adds
Row_RatedGood(r, s, message) ==
  [id |-> Len(ledger) + 1, session_id |-> s, role |-> message.role,
   content |-> message.content,
   emb_tokens |-> message.embTokens, gen_tokens |-> message.genTokens,
   emb_model |-> message.embModel,
   gen_model |-> message.genModel, answer_val |-> "good",
   relative_docs |-> message.relativeDocs, req |-> r]

\* INSERT INTO chat_history: the row storeChatMessage adds. id is SERIAL;
\* emb_tokens and gen_tokens are embTokens || 0 and genTokens || 0;
\* answer_val is answerVal || null of an answerVal nobody passes;
\* relative_docs is the JSON of relativeDocs, or null
Row(r, s, message) ==
  [id |-> Len(ledger) + 1, session_id |-> s, role |-> message.role,
   content |-> message.content,
   emb_tokens |-> message.embTokens, gen_tokens |-> message.genTokens,
   emb_model |-> message.embModel,
   gen_model |-> message.genModel, answer_val |-> None,
   relative_docs |-> message.relativeDocs, req |-> r]

\* ------------------------------------------------------------ the handler
\* the catch of app.post('/chat'): any exception becomes a 500
\* the handler returned: its locals are gone, the response is what is left
Return(r) ==
  /\ pc' = [pc EXCEPT ![r] = "done"]
  /\ chatHistory' = [chatHistory EXCEPT ![r] = << >>]
  /\ cleanedPrompt' = [cleanedPrompt EXCEPT ![r] = Nil]
  /\ promptEmbedding' = [promptEmbedding EXCEPT ![r] = Nil]
  /\ results' = [results EXCEPT ![r] = Nil]
  /\ answer' = [answer EXCEPT ![r] = Nil]
  /\ finalSessionId' = [finalSessionId EXCEPT ![r] = None]

ChatCatch(r, message) ==
  /\ Return(r)
  /\ phase' = [phase EXCEPT ![r] = "-"]
  /\ response' = [response EXCEPT ![r] =
       [status |-> 500, error |-> message, answer |-> None, results |-> << >>,
        count |-> NoCount, relativeDocs |-> << >>,
        genTokensUsed |-> NoCount, embTokensUsed |-> NoCount, sessionId |-> None]]

\* the request body is parsed; a missing prompt is a 400, else the history
\* of the session is asked for (when a sessionId came) or refinement starts
Chat(r) ==
  /\ pc[r] = "idle"
  /\ \E p \in Prompts, s \in Sessions \cup {NoSession} :
       /\ input' = [input EXCEPT ![r] = [prompt |-> p, sessionId |-> s]]
       /\ IF p = ""
            THEN /\ pc' = [pc EXCEPT ![r] = "done"]
                 /\ response' = [response EXCEPT ![r] =
                                   [status |-> 400, error |-> "Missing prompt",
                                    answer |-> None, results |-> << >>,
                                    count |-> NoCount, relativeDocs |-> << >>,
                                    genTokensUsed |-> NoCount, embTokensUsed |-> NoCount,
                                    sessionId |-> None]]
                 /\ UNCHANGED <<phase, log>>
            ELSE IF s # NoSession
              THEN /\ pc' = [pc EXCEPT ![r] = "history"]
                   /\ log' = [log EXCEPT ![r].steps = Append(@, "history")]
                   /\ UNCHANGED <<phase, response>>
              ELSE /\ pc' = [pc EXCEPT ![r] = "refine"]
                   /\ phase' = [phase EXCEPT ![r] = "gate"]
                   /\ UNCHANGED <<response, log>>
  /\ UNCHANGED <<timer, attempts, chatHistory, cleanedPrompt, promptEmbedding, results,
                 answer, finalSessionId, lastCallAge, ledger>>
  /\ reply' = Nil                  \* the client has sent its next request
  /\ UNCHANGED <<ingest, vectorStore>>

\* postgresService.getChatHistory returns: the rows, or [] when the query failed
GetChatHistoryReturn(r) ==
  /\ pc[r] = "history"
  /\ \E ok \in BOOLEAN :
       chatHistory' = [chatHistory EXCEPT ![r] =
                         IF ok THEN getChatHistory(input[r].sessionId, HistoryLimit) ELSE << >>]
  /\ pc' = [pc EXCEPT ![r] = "refine"]
  /\ phase' = [phase EXCEPT ![r] = "gate"]
  /\ UNCHANGED <<timer, attempts, input, cleanedPrompt, promptEmbedding, results, answer,
                 finalSessionId, response, lastCallAge, ledger, log>>
  /\ UNCHANGED <<ingest, api, vectorStore>>

\* ----------------------------------------------------------- OpenAIClient
Bump(n) == Min(n + 1, MaxAttempts)

\* text.substring(0, MAX_TOKENS_PER_EMBEDDING): the input of the embedding
embeddingInput(text) == SubSeq(text, 1, Min(Len(text), MAX_TOKENS_PER_EMBEDDING))

\* createEmbedding called with the prompt of the request
ProviderRequest_EmbedsRawPrompt(r, first) ==
  [fn |-> pc[r],
   text |-> input[r].prompt,
   passages |-> << >>,
   history |-> IF pc[r] # "embed" /\ first THEN chatHistory[r] ELSE << >>]

\* what the provider request of the function r is in carries: the text (the
\* input of an embedding, the query of a completion), the passages and the
\* chat history. The handler calls generateCleanUserPrompt(prompt,
\* chatHistory), createEmbedding(cleanedPrompt.generatedUserPrompt) and
\* generateAnswerFromResults(prompt, results, chatHistory); a function that
\* calls itself after a 429 passes no chatHistory, which is [] then. The
\* messages of generateAnswerFromResults are the instructions, "Question:
\* ${userQuery} ..." and the chat history: searchResults is in none of them.
ProviderRequest(r, first) ==
  [fn |-> pc[r],
   text |-> IF pc[r] = "embed" THEN embeddingInput(cleanedPrompt[r].generatedUserPrompt)
            ELSE input[r].prompt,
   passages |-> << >>,
   history |-> IF pc[r] # "embed" /\ first THEN chatHistory[r] ELSE << >>]

\* the provider call that follows rateLimit: lastCall = Date.now() and the
\* request goes out, lastCallAge ms after the provider call before it
IssueCall(r) ==
  LET first == log[r].fn # pc[r]     \* the first call of this function
  IN /\ lastCallAge' = 0
     /\ phase' = [phase EXCEPT ![r] = "call"]
     /\ attempts' = [attempts EXCEPT ![r] = IF first THEN 1 ELSE Bump(@)]
     /\ log' = [log EXCEPT ![r].fn = pc[r],
                           ![r].outcomes = IF first THEN {} ELSE @,
                           ![r].gates = IF first THEN 1 ELSE Bump(@),
                           ![r].earlyRetry = @ \/ (~first /\ log[r].sinceThrottle < RetryDelayMs),
                           ![r].steps = IF first THEN Append(@, pc[r]) ELSE @,
                           ![r].request = ProviderRequest(r, first)]

\* rateLimit up to its await: with nothing to wait for it sets lastCall and
\* returns, and the caller's provider call goes out; else it sleeps
rateLimit(r) ==
  /\ pc[r] \in GatedFns
  /\ phase[r] = "gate"
  /\ LET wait == Max(0, minDelayMs - lastCallAge)
     IN IF wait > 0
          THEN /\ timer' = [timer EXCEPT ![r] = wait]
               /\ phase' = [phase EXCEPT ![r] = "sleep"]
               /\ UNCHANGED <<attempts, lastCallAge, log>>
          ELSE /\ IssueCall(r)
               /\ UNCHANGED timer
  /\ UNCHANGED <<pc, ledger>>
  /\ UNCHANGED local
  /\ UNCHANGED <<ingest, api, vectorStore>>

\* rateLimit after its sleep: lastCall = Date.now(), whatever other callers
\* did meanwhile, and the caller's provider call goes out
rateLimitWake(r) ==
  /\ pc[r] \in GatedFns
  /\ phase[r] = "sleep"
  /\ timer[r] = 0
  /\ IssueCall(r)
  /\ UNCHANGED <<pc, timer, ledger>>
  /\ UNCHANGED local
  /\ UNCHANGED <<ingest, api, vectorStore>>

\* TickMs pass: sleeps count down, ages grow
Tick ==
  /\ timer' = [r \in Requests |-> Max(0, timer[r] - TickMs)]
  /\ lastCallAge' = Min(minDelayMs, lastCallAge + TickMs)
  /\ log' = [r \in Requests |->
               [log[r] EXCEPT !.sinceThrottle = Min(RetryDelayMs, @ + TickMs)]]
  /\ UNCHANGED <<pc, phase, attempts, ledger>>
  /\ UNCHANGED local
  /\ UNCHANGED <<ingest, api, vectorStore>>

\* the provider answered the call of r: it is logged
Answered(r, what) == [log EXCEPT ![r].outcomes = @ \cup {what}, ![r].request = Nil]

\* a provider function is left for the next stage of the handler
Leave(r, stage, ph) ==
  /\ pc' = [pc EXCEPT ![r] = stage]
  /\ phase' = [phase EXCEPT ![r] = ph]
  /\ UNCHANGED attempts

\* history: once the handler goes on, only the final outcome of the function
\* it left is remembered
Settled(r) == [log EXCEPT ![r].outcomes = @ \ {"throttle"}, ![r].gates = 0]

\* error.status === 429: sleep(5000), then call the function again
SleepThenRetry(r) ==
  /\ phase' = [phase EXCEPT ![r] = "backoff"]
  /\ timer' = [timer EXCEPT ![r] = RetryDelayMs]
  /\ log' = [Answered(r, "throttle") EXCEPT ![r].sinceThrottle = 0]
  /\ UNCHANGED <<pc, attempts>>

\* Retry sending the request again at once, without rateLimit
Retry_BypassesGate(r) ==
  /\ pc[r] \in GatedFns
  /\ phase[r] = "backoff"
  /\ timer[r] = 0
  /\ phase' = [phase EXCEPT ![r] = "call"]
  /\ UNCHANGED <<pc, timer, attempts, lastCallAge, ledger, log>>
  /\ UNCHANGED local
  /\ UNCHANGED <<ingest, api, vectorStore>>

\* the sleep(5000) is over: the function calls itself, which starts with rateLimit
Retry(r) ==
  /\ pc[r] \in GatedFns
  /\ phase[r] = "backoff"
  /\ timer[r] = 0
  /\ phase' = [phase EXCEPT ![r] = "gate"]
  /\ UNCHANGED <<pc, timer, attempts, lastCallAge, ledger, log>>
  /\ UNCHANGED local
  /\ UNCHANGED <<ingest, api, vectorStore>>

\* generateCleanUserPrompt, the provider answered: the trimmed content, or the
\* query when the content is empty
generateCleanUserPromptReturn(r) ==
  /\ pc[r] = "refine"
  /\ phase[r] = "call"
  /\ \E c \in Completions :
       cleanedPrompt' = [cleanedPrompt EXCEPT ![r] =
         [generatedUserPrompt |-> IF c.content # "" THEN c.content ELSE input[r].prompt,
          tokensUsed |-> c.tokens]]
  /\ Leave(r, "embed", "gate")
  /\ log' = Answered(r, "ok")
  /\ UNCHANGED <<timer, input, chatHistory, promptEmbedding, results, answer,
                 finalSessionId, response, lastCallAge, ledger>>
  /\ UNCHANGED <<ingest, api, vectorStore>>

\* generateCleanUserPromptCatch with the fallback replaced by a rethrow
generateCleanUserPromptCatch_Rethrows(r, status) ==
  /\ pc[r] = "refine"
  /\ phase[r] = "call"
  /\ IF status = 429
       THEN /\ SleepThenRetry(r)
            /\ UNCHANGED <<chatHistory, cleanedPrompt, promptEmbedding, results, answer,
                           finalSessionId, response>>
       ELSE /\ ChatCatch(r, "provider error")
            /\ log' = Answered(r, "fail")
            /\ UNCHANGED <<timer, attempts>>
  /\ UNCHANGED <<input, lastCallAge, ledger>>
  /\ UNCHANGED <<ingest, api, vectorStore>>

\* generateCleanUserPrompt, the provider failed: a 429 is retried, anything
\* else falls back to the original query
generateCleanUserPromptCatch(r, status) ==
  /\ pc[r] = "refine"
  /\ phase[r] = "call"
  /\ IF status = 429
       THEN /\ SleepThenRetry(r)
            /\ UNCHANGED cleanedPrompt
       ELSE /\ cleanedPrompt' = [cleanedPrompt EXCEPT ![r] =
                 [generatedUserPrompt |-> input[r].prompt, tokensUsed |-> 0]]
            /\ Leave(r, "embed", "gate")
            /\ log' = Answered(r, "fail")
            /\ UNCHANGED timer
  /\ UNCHANGED <<input, chatHistory, promptEmbedding, results, answer,
                 finalSessionId, response, lastCallAge, ledger>>
  /\ UNCHANGED <<ingest, api, vectorStore>>

\* createEmbedding, the provider answered: the vector and the tokens used
createEmbeddingReturn(r) ==
  /\ pc[r] = "embed"
  /\ phase[r] = "call"
  /\ \E e \in Embeddings :
       promptEmbedding' = [promptEmbedding EXCEPT ![r] =
                             [embedding |-> e.dim, tokensUsed |-> e.tokens]]
  /\ Leave(r, "search", "-")
  /\ log' = Answered(r, "ok")
  /\ UNCHANGED <<timer, input, chatHistory, cleanedPrompt, results, answer,
                 finalSessionId, response, lastCallAge, ledger>>
  /\ UNCHANGED <<ingest, api, vectorStore>>

\* createEmbeddingCatch giving up on the second 429 of a call
createEmbeddingCatch_CappedRetries(r, status) ==
  /\ pc[r] = "embed"
  /\ phase[r] = "call"
  /\ IF status = 429 /\ attempts[r] < 2
       THEN /\ SleepThenRetry(r)
            /\ UNCHANGED <<chatHistory, cleanedPrompt, promptEmbedding, results, answer,
                           finalSessionId, response>>
       ELSE /\ ChatCatch(r, "provider error")
            /\ log' = Answered(r, IF status = 429 THEN "throttle" ELSE "fail")
            /\ UNCHANGED <<timer, attempts>>
  /\ UNCHANGED <<input, lastCallAge, ledger>>
  /\ UNCHANGED <<ingest, api, vectorStore>>

\* createEmbeddingCatch answering a failure with a vector of zeros
createEmbeddingCatch_Substitutes(r, status) ==
  /\ pc[r] = "embed"
  /\ phase[r] = "call"
  /\ IF status = 429
       THEN /\ SleepThenRetry(r)
            /\ UNCHANGED promptEmbedding
       ELSE /\ promptEmbedding' = [promptEmbedding EXCEPT ![r] =
                                     [embedding |-> EMBEDDING_DIM, tokensUsed |-> 0]]
            /\ Leave(r, "search", "-")
            /\ log' = Answered(r, "fail")
            /\ UNCHANGED timer
  /\ UNCHANGED <<input, chatHistory, cleanedPrompt, results, answer, finalSessionId,
                 response, lastCallAge, ledger>>
  /\ UNCHANGED <<ingest, api, vectorStore>>

\* createEmbedding, the provider failed: a 429 is retried, anything else is
\* thrown and ends the request in the handler's catch
createEmbeddingCatch(r, status) ==
  /\ pc[r] = "embed"
  /\ phase[r] = "call"
  /\ IF status = 429
       THEN /\ SleepThenRetry(r)
            /\ UNCHANGED <<chatHistory, cleanedPrompt, promptEmbedding, results, answer,
                           finalSessionId, response>>
       ELSE /\ ChatCatch(r, "provider error")
            /\ log' = Answered(r, "fail")
            /\ UNCHANGED <<timer, attempts>>
  /\ UNCHANGED <<input, lastCallAge, ledger>>
  /\ UNCHANGED <<ingest, api, vectorStore>>

\* similaritySearch without the validation of the vector's length
similaritySearch_Unchecked(r) ==
  /\ pc[r] = "search"
  /\ pc' = [pc EXCEPT ![r] = "query"]
  /\ log' = [Settled(r) EXCEPT ![r].queryIssued = TRUE, ![r].steps = Append(@, "query")]
  /\ attempts' = [attempts EXCEPT ![r] = 0]
  /\ UNCHANGED <<phase, timer, lastCallAge, ledger>>
  /\ UNCHANGED local
  /\ UNCHANGED <<ingest, api, vectorStore>>

\* similaritySearch up to its await: a vector of the wrong length throws,
\* else the query goes to the store
similaritySearch(r) ==
  /\ pc[r] = "search"
  /\ IF promptEmbedding[r].embedding # EMBEDDING_DIM
       THEN /\ ChatCatch(r, "Vector dimension mismatch")
            /\ log' = Settled(r)
       ELSE /\ pc' = [pc EXCEPT ![r] = "query"]
            /\ log' = [Settled(r) EXCEPT ![r].queryIssued = TRUE, ![r].steps = Append(@, "query")]
            /\ UNCHANGED <<phase, chatHistory, cleanedPrompt, promptEmbedding, results,
                           answer, finalSessionId, response>>
  /\ attempts' = [attempts EXCEPT ![r] = 0]
  /\ UNCHANGED <<timer, input, lastCallAge, ledger>>
  /\ UNCHANGED <<ingest, api, vectorStore>>

\* similaritySearch, the store answered (the points) or failed (rethrown)
similaritySearchReturn(r) ==
  /\ pc[r] = "query"
  /\ \/ /\ \E res \in QueryResults : results' = [results EXCEPT ![r] = [points |-> res]]
        /\ pc' = [pc EXCEPT ![r] = "synth"]
        /\ phase' = [phase EXCEPT ![r] = "gate"]
        /\ UNCHANGED <<chatHistory, cleanedPrompt, promptEmbedding, answer,
                       finalSessionId, response>>
     \/ ChatCatch(r, "store error")
  /\ UNCHANGED <<timer, attempts, input, lastCallAge, ledger, log>>
  /\ UNCHANGED <<ingest, api, vectorStore>>

\* --------------------------------------------------------- PostgresService
\* `${Date.now()}_${Math.random()...}`: an id no other request has
MintSessionId(r) == "minted_" \o r

\* storeChatConversation minting a session id whether one was supplied or not
storeChatConversation_AlwaysMints(r) ==
  /\ finalSessionId' = [finalSessionId EXCEPT ![r] = MintSessionId(r)]
  /\ pc' = [pc EXCEPT ![r] = "storeUser"]
  /\ phase' = [phase EXCEPT ![r] = "-"]
  /\ attempts' = [attempts EXCEPT ![r] = 0]

\* storeChatConversation up to its first await: the session id is resolved
\* and the user INSERT is sent
storeChatConversation(r) ==
  /\ finalSessionId' = [finalSessionId EXCEPT ![r] =
       IF input[r].sessionId # NoSession THEN input[r].sessionId ELSE MintSessionId(r)]
  /\ pc' = [pc EXCEPT ![r] = "storeUser"]
  /\ phase' = [phase EXCEPT ![r] = "-"]
  /\ attempts' = [attempts EXCEPT ![r] = 0]

\* generateAnswerFromResults, the provider answered: the handler goes on to
\* storeChatConversation
generateAnswerFromResultsReturn(r) ==
  /\ pc[r] = "synth"
  /\ phase[r] = "call"
  /\ \E c \in Completions :
       answer' = [answer EXCEPT ![r] =
         [generatedAnswer |-> IF c.content # "" THEN c.content ELSE UNABLE,
          tokensUsed |-> c.tokens]]
  /\ storeChatConversation(r)
  /\ log' = [log EXCEPT ![r].outcomes = {"ok"}, ![r].gates = 0, ![r].request = Nil]
  /\ UNCHANGED <<timer, input, chatHistory, cleanedPrompt, promptEmbedding, results,
                 response, lastCallAge, ledger>>
  /\ UNCHANGED <<ingest, api, vectorStore>>

\* generateAnswerFromResultsCatch with the apology replaced by a rethrow
generateAnswerFromResultsCatch_Rethrows(r, status) ==
  /\ pc[r] = "synth"
  /\ phase[r] = "call"
  /\ IF status = 429
       THEN /\ SleepThenRetry(r)
            /\ UNCHANGED <<chatHistory, cleanedPrompt, promptEmbedding, results, answer,
                           finalSessionId, response>>
       ELSE /\ ChatCatch(r, "provider error")
            /\ log' = [log EXCEPT ![r].outcomes = {"fail"}, ![r].gates = 0, ![r].request = Nil]
            /\ UNCHANGED <<timer, attempts>>
  /\ UNCHANGED <<input, lastCallAge, ledger>>
  /\ UNCHANGED <<ingest, api, vectorStore>>

\* generateAnswerFromResults, the provider failed: a 429 is retried, anything
\* else becomes the apology and the handler goes on to storeChatConversation
generateAnswerFromResultsCatch(r, status) ==
  /\ pc[r] = "synth"
  /\ phase[r] = "call"
  /\ IF status = 429
       THEN /\ SleepThenRetry(r)
            /\ UNCHANGED <<answer, finalSessionId>>
       ELSE /\ answer' = [answer EXCEPT ![r] =
                 [generatedAnswer |-> APOLOGY, tokensUsed |-> 0]]
            /\ storeChatConversation(r)
            /\ log' = [log EXCEPT ![r].outcomes = {"fail"}, ![r].gates = 0, ![r].request = Nil]
            /\ UNCHANGED timer
  /\ UNCHANGED <<input, chatHistory, cleanedPrompt, promptEmbedding, results,
                 response, lastCallAge, ledger>>
  /\ UNCHANGED <<ingest, api, vectorStore>>

\* relativeDocs listing the results last first
relativeDocs_Reversed(r) == [i \in 1..Len(results[r].points) |-> [name |-> results[r].points[Len(results[r].points) + 1 - i]]]

\* results.map(...): one entry for each result, in the order of the results
relativeDocs(r) == [i \in 1..Len(results[r].points) |-> [name |-> results[r].points[i]]]

\* userMessage without the tokens of the refine step
userMessage_NoGenTokens(r) ==
  [role |-> "user", content |-> input[r].prompt,
   embTokens |-> promptEmbedding[r].tokensUsed, genTokens |-> 0,
   embModel |-> EMBEDDING_MODEL, genModel |-> EMBEDDING_MODEL,
   relativeDocs |-> Nil]

\* what the handler passes as embModel and genModel, and what
\* storeChatConversation passes on to storeChatMessage for the user message
\* and for the agent message
userMessage(r) ==
  LET embModel == EMBEDDING_MODEL
      genModel == GENERATIVE_MODEL
  IN [role |-> "user", content |-> input[r].prompt,
      embTokens |-> promptEmbedding[r].tokensUsed,   \* embTokens: embPromptTokens || 0
      genTokens |-> cleanedPrompt[r].tokensUsed,     \* genTokens: genPromptTokens || 0
      embModel |-> embModel,        \* embModel: embModel || EMBEDDING_MODEL
      genModel |-> embModel,        \* genModel: embModel || EMBEDDING_MODEL
      relativeDocs |-> Nil]

\* assistantMessage with no documents stored as null
assistantMessage_NullWhenEmpty(r) ==
  [role |-> "assistant", content |-> answer[r].generatedAnswer,
   embTokens |-> 0, genTokens |-> answer[r].tokensUsed,
   embModel |-> GENERATIVE_MODEL, genModel |-> GENERATIVE_MODEL,
   relativeDocs |-> IF results[r].points = << >> THEN Nil ELSE [json |-> relativeDocs(r)]]

assistantMessage(r) ==
  LET embModel == EMBEDDING_MODEL
      genModel == GENERATIVE_MODEL
  IN [role |-> "assistant", content |-> answer[r].generatedAnswer,
      embTokens |-> 0,                               \* embTokens: 0
      genTokens |-> answer[r].tokensUsed,            \* genTokens: genAnswerTokens || 0
      embModel |-> genModel,        \* embModel: genModel || GENERATIVE_MODEL
      genModel |-> genModel,        \* genModel: genModel || GENERATIVE_MODEL
      relativeDocs |-> [json |-> relativeDocs(r)]]

\* storeChatMessage: the INSERT stores the row, or fails and the error is
\* logged and swallowed
storeChatMessage(r, message, ok) ==
  /\ ledger' = IF ok THEN Append(ledger, Row(r, finalSessionId[r], message)) ELSE ledger
  /\ log' = [log EXCEPT ![r].writes = Append(@, <<message.role, ok>>),
                        ![r].steps = Append(@, message.role)]

\* the user INSERT is over: the assistant INSERT is sent
storeUserMessage(r) ==
  /\ pc[r] = "storeUser"
  /\ \E ok \in BOOLEAN : storeChatMessage(r, userMessage(r), ok)
  /\ pc' = [pc EXCEPT ![r] = "storeAssistant"]
  /\ UNCHANGED <<phase, timer, attempts, lastCallAge>>
  /\ UNCHANGED local
  /\ UNCHANGED <<ingest, api, vectorStore>>

\* storeAssistantMessage with a failed INSERT thrown on to the handler's catch
storeAssistantMessage_SurfacesFailure(r) ==
  /\ pc[r] = "storeAssistant"
  /\ \E ok \in BOOLEAN :
       /\ storeChatMessage(r, assistantMessage(r), ok)
       /\ IF ok
            THEN /\ response' = [response EXCEPT ![r] =
                      [status |-> 200, error |-> None, answer |-> answer[r].generatedAnswer,
                       results |-> results[r].points,
                       count |-> Len(results[r].points), relativeDocs |-> relativeDocs(r),
                       genTokensUsed |-> cleanedPrompt[r].tokensUsed + answer[r].tokensUsed,
                       embTokensUsed |-> promptEmbedding[r].tokensUsed,
                       sessionId |-> finalSessionId[r]]]
                 /\ Return(r)
                 /\ UNCHANGED phase
            ELSE ChatCatch(r, "store error")
  /\ UNCHANGED <<timer, attempts, input, lastCallAge>>
  /\ UNCHANGED <<ingest, api, vectorStore>>

\* the assistant INSERT is over: storeChatConversation returns the session
\* id and the handler answers 200
storeAssistantMessage(r) ==
  /\ pc[r] = "storeAssistant"
  /\ \E ok \in BOOLEAN : storeChatMessage(r, assistantMessage(r), ok)
  /\ response' = [response EXCEPT ![r] =
       [status |-> 200, error |-> None, answer |-> answer[r].generatedAnswer,
        results |-> results[r].points,
        count |-> Len(results[r].points), relativeDocs |-> relativeDocs(r),
        genTokensUsed |-> cleanedPrompt[r].tokensUsed + answer[r].tokensUsed,
        embTokensUsed |-> promptEmbedding[r].tokensUsed,
        sessionId |-> finalSessionId[r]]]
  /\ Return(r)
  /\ UNCHANGED <<phase, timer, attempts, input, lastCallAge>>
  /\ UNCHANGED <<ingest, api, vectorStore>>

\* ------------------------------------------------------------ the system
Step(r) ==
  \/ Chat(r)
  \/ GetChatHistoryReturn(r)
  \/ rateLimit(r)
  \/ rateLimitWake(r)
  \/ Retry(r)
  \/ generateCleanUserPromptReturn(r)
  \/ \E status \in ErrorStatuses : generateCleanUserPromptCatch(r, status)
  \/ createEmbeddingReturn(r)
  \/ \E status \in ErrorStatuses : createEmbeddingCatch(r, status)
  \/ similaritySearch(r)
  \/ similaritySearchReturn(r)
  \/ generateAnswerFromResultsReturn(r)
  \/ \E status \in ErrorStatuses : generateAnswerFromResultsCatch(r, status)
  \/ storeUserMessage(r)
  \/ storeAssistantMessage(r)

Next ==
  \/ \E r \in Requests : Step(r)
  \/ Tick

Spec == Init /\ [][Next]_vars

\* one request on its own
SoloNext ==
  \/ Step("r1")
  \/ Tick

\* the event loop runs every continuation that is ready, the provider and
\* the stores answer every call, and time passes
SoloFairSpec == Init /\ [][SoloNext]_vars /\ WF_vars(Tick) /\ WF_vars(Step("r1"))

\* SoloFairSpec with a provider that does not throttle embedding requests for ever
SoloAnsweringSpec == SoloFairSpec /\ SF_vars(createEmbeddingReturn("r1"))

\* ------------------------------------------------ one conversation, in turns
\* the session id the client of r knows: the one of the response, or the one
\* it sent when the response carries none
KnownSessionId(r) ==
  IF response[r].status = 200 THEN response[r].sessionId ELSE input[r].sessionId

\* the client of r sends another POST /chat, with one of the session ids
\* given: Chat for a request that follows another
Resume(r, sessionIds) ==
  /\ pc[r] = "done"
  /\ Len(log[r].writes) < 2 * MaxExchanges
  /\ \E p \in Prompts, s \in sessionIds :
       /\ input' = [input EXCEPT ![r] = [prompt |-> p, sessionId |-> s]]
       /\ IF p = ""
            THEN /\ response' = [response EXCEPT ![r] =
                                   [status |-> 400, error |-> "Missing prompt",
                                    answer |-> None, results |-> << >>,
                                    count |-> NoCount, relativeDocs |-> << >>,
                                    genTokensUsed |-> NoCount, embTokensUsed |-> NoCount,
                                    sessionId |-> None]]
                 /\ UNCHANGED <<pc, phase>>
            ELSE /\ response' = [response EXCEPT ![r] = Nil]
                 /\ IF s # NoSession
                      THEN /\ pc' = [pc EXCEPT ![r] = "history"]
                           /\ UNCHANGED phase
                      ELSE /\ pc' = [pc EXCEPT ![r] = "refine"]
                           /\ phase' = [phase EXCEPT ![r] = "gate"]
       /\ log' = [log EXCEPT ![r] =
                    [EmptyLog EXCEPT !.writes = log[r].writes,
                                     !.steps = IF p # "" /\ s # NoSession
                                                 THEN <<"history">> ELSE << >>]]
  /\ UNCHANGED <<timer, attempts, chatHistory, cleanedPrompt, promptEmbedding, results,
                 answer, finalSessionId, lastCallAge, ledger>>
  /\ reply' = Nil                  \* the client has sent its next request
  /\ UNCHANGED <<ingest, vectorStore>>

\* the next POST /chat of the conversation of r: the client sends the
\* session id it knows
Continue(r) == Resume(r, {KnownSessionId(r)})

SessionNext ==
  \/ Step("r1")
  \/ Continue("r1")
  \/ Tick

SessionSpec == Init /\ [][SessionNext]_vars

\* ------------------------------------------ /history, /feedback and /all
NoLimit == -1             \* no number: a limit nobody passed
LimitQueries == {NoLimit, 0, 1}
\* the session ids a client can ask the history of: none, one of a
\* conversation, one no conversation has
SessionQueries == {NoSession} \cup Sessions \cup {MintSessionId(r) : r \in Requests}
\* messageId of a feedback: 0 is a missing one, the last one is the id of no row
MessageIds == 0..(2 * MaxExchanges + 1)
\* answerVal of a feedback: None is a missing one
AnswerVals == {None, "good", "bad", "fine"}

\* the client has no POST /chat under way
Quiet == \A r \in Requests : pc[r] \in {"idle", "done"}

\* app.get('/history'): limit is parseInt(c.req.query('limit') || '50'); the
\* rows of getChatHistory, or [] when its query failed
getHistory(sessionId, limitQuery) ==
  LET limit == IF limitQuery = NoLimit THEN 50 ELSE limitQuery
  IN \E ok \in BOOLEAN :
       reply' = [endpoint |-> "history", status |-> 200, sessionId |-> sessionId,
                 limit |-> limit,
                 history |-> IF ok THEN getChatHistory(sessionId, limit) ELSE << >>]

\* the client asks for the history of one of the sessions given
HistoryOf(sessionIds, limitQueries) ==
  /\ Quiet
  /\ \E sessionId \in sessionIds, limitQuery \in limitQueries :
       getHistory(sessionId, limitQuery)
  /\ UNCHANGED <<chat, ingest, vectorStore>>

History == HistoryOf(SessionQueries, LimitQueries)

\* the client asks for the whole history of a session that has rows
HistoryOfSession == HistoryOf(AllSessions, {NoLimit})

\* updateAnswerValidation without role = 'assistant' in its WHERE clause
updateAnswerValidation_AnyRole(messageId, answerVal) ==
  [i \in 1..Len(ledger) |->
     IF ledger[i].id = messageId
       THEN [ledger[i] EXCEPT !.answer_val = answerVal]
       ELSE ledger[i]]

\* UPDATE chat_history SET answer_val = answerVal WHERE id = messageId AND role = 'assistant'
updateAnswerValidation(messageId, answerVal) ==
  [i \in 1..Len(ledger) |->
     IF ledger[i].id = messageId /\ ledger[i].role = "assistant"
       THEN [ledger[i] EXCEPT !.answer_val = answerVal]
       ELSE ledger[i]]

\* Feedback that takes any answerVal but a missing one
Feedback_AnyAnswerVal ==
  /\ Quiet
  /\ \E messageId \in MessageIds, answerVal \in AnswerVals :
       IF messageId = 0 \/ answerVal = None
         THEN /\ reply' = [endpoint |-> "feedback", status |-> 400,
                           messageId |-> messageId, answerVal |-> answerVal]
              /\ UNCHANGED ledger
         ELSE /\ \E ok \in BOOLEAN :
                   ledger' = IF ok THEN updateAnswerValidation(messageId, answerVal)
                             ELSE ledger
              /\ reply' = [endpoint |-> "feedback", status |-> 200,
                           messageId |-> messageId, answerVal |-> answerVal]
  /\ UNCHANGED <<pc, phase, timer, attempts, lastCallAge, log>>
  /\ UNCHANGED local
  /\ UNCHANGED <<ingest, vectorStore>>

\* app.post('/feedback'): a missing messageId or an answerVal that is not
\* good or bad is a 400; else the UPDATE is sent, whose failure
\* updateAnswerValidation logs and swallows, and the answer is a 200
Feedback ==
  /\ Quiet
  /\ \E messageId \in MessageIds, answerVal \in AnswerVals :
       IF messageId = 0 \/ answerVal = None \/ answerVal \notin {"good", "bad"}
         THEN /\ reply' = [endpoint |-> "feedback", status |-> 400,
                           messageId |-> messageId, answerVal |-> answerVal]
              /\ UNCHANGED ledger
         ELSE /\ \E ok \in BOOLEAN :
                   ledger' = IF ok THEN updateAnswerValidation(messageId, answerVal)
                             ELSE ledger
              /\ reply' = [endpoint |-> "feedback", status |-> 200,
                           messageId |-> messageId, answerVal |-> answerVal]
  /\ UNCHANGED <<pc, phase, timer, attempts, lastCallAge, log>>
  /\ UNCHANGED local
  /\ UNCHANGED <<ingest, vectorStore>>

\* app.get('/all'): getAllEntries scrolls up to 100 points; a failure of the
\* store is a 500
All ==
  /\ Quiet
  /\ \E ok \in BOOLEAN :
       reply' = IF ok THEN [endpoint |-> "all", status |-> 200,
                            count |-> Min(100, Cardinality(points))]
                ELSE [endpoint |-> "all", status |-> 500, count |-> NoCount]
  /\ UNCHANGED <<chat, ingest, vectorStore>>

\* the client of r starts another conversation: with a session id of its
\* own choice, or with none if the id the server would mint is still unused
NewConversation(r) ==
  Resume(r, Sessions \cup (IF MintSessionId(r) \in AllSessions THEN {} ELSE {NoSession}))

\* Step with a provider that answers every call: the stores may still fail
AnsweredStep(r) ==
  \/ Chat(r)
  \/ GetChatHistoryReturn(r)
  \/ rateLimit(r)
  \/ rateLimitWake(r)
  \/ generateCleanUserPromptReturn(r)
  \/ createEmbeddingReturn(r)
  \/ similaritySearch(r)
  \/ similaritySearchReturn(r)
  \/ generateAnswerFromResultsReturn(r)
  \/ storeUserMessage(r)
  \/ storeAssistantMessage(r)

\* one client, which sends one request at a time: it has conversations and
\* asks for the history of sessions
HistoryNext ==
  \/ AnsweredStep("r1")
  \/ Continue("r1")
  \/ NewConversation("r1")
  \/ History
  \/ Tick

HistorySpec == Init /\ [][HistoryNext]_vars

\* one client, which sends one request at a time: it has a conversation,
\* rates answers and uses the other endpoints
FeedbackNext ==
  \/ AnsweredStep("r1")
  \/ Continue("r1")
  \/ Feedback
  \/ HistoryOfSession
  \/ All
  \/ Tick

FeedbackSpec == Init /\ [][FeedbackNext]_vars

\* -------------------------------------------------------- similaritySearch
\* Scores and thresholds are in hundredths: 40 is 0.4.
NoThreshold == -1         \* no number: a threshold nobody passed
scoreThreshold == 40      \* const scoreThreshold = 0.4 of the server
NoFilter == "none"        \* no filter
Filters == {NoFilter, "doc1"}
\* a limit in the body of POST /chat, a topK passed to similaritySearch
TopKs == {NoLimit, 0, 1, 2}
\* a scoreThreshold passed to similaritySearch
Thresholds == {NoThreshold, 0, 40, 101}

\* the points of the collection as the store ranks them for a query vector
Ranked ==
  <<[id |-> 1, score |-> 80, payload |-> "doc1"],
    [id |-> 2, score |-> 50, payload |-> "doc2"],
    [id |-> 3, score |-> 30, payload |-> "doc1"]>>

Pick(keep) == SelectSeq(Ranked, LAMBDA p : p.id \in keep)

\* what the collection can hold: any of the points, ranked
Collections == {Pick(keep) : keep \in SUBSET {1, 2, 3}}

\* the store's answer to a query: the points of the filter at or above
\* score_threshold, best first, at most limit of them
StoreQuery(ranked, params) ==
  LET hits == SelectSeq(ranked, LAMBDA p : /\ p.score >= params.score_threshold
                                          /\ params.filter \in {NoFilter, p.payload})
  IN SubSeq(hits, 1, Min(params.limit, Len(hits)))

\* queryParams without score_threshold: the store applies none
queryParams_NoThreshold(vector, topK, threshold, filter) ==
  [query |-> vector, limit |-> topK, score_threshold |-> 0, filter |-> filter]

\* the queryParams of similaritySearch: limit: topK,
\* score_threshold: scoreThreshold || 0.7 (0 and undefined are falsy), the
\* filter as it is
queryParams(vector, topK, threshold, filter) ==
  [query |-> vector, limit |-> topK,
   score_threshold |-> IF threshold \in {NoThreshold, 0} THEN 70 ELSE threshold,
   filter |-> filter]

\* the answer cut to its best point
Mapped_BestOnly(hits) == [i \in 1..Min(1, Len(hits)) |-> [score |-> hits[i].score, payload |-> hits[i].payload]]

\* points.points?.map(res => ({score, payload})) || []
Mapped(hits) == [i \in 1..Len(hits) |-> [score |-> hits[i].score, payload |-> hits[i].payload]]

\* similaritySearch(vector, topK = 5, scoreThreshold, filter) as one call:
\* a vector of the wrong length throws before any query; else the query is
\* sent and the store answers with points, without points, or fails (rethrown)
search(caller, supplied, vector, topKArg, threshold, filter) ==
  LET topK == IF topKArg = NoLimit THEN 5 ELSE topKArg
      params == queryParams(vector, topK, threshold, filter)
      Call(query, ranked, outcome, hits, result) ==
        [caller |-> caller, supplied |-> supplied, topK |-> topK,
         scoreThreshold |-> threshold, query |-> query, stored |-> ranked,
         outcome |-> outcome, points |-> hits, result |-> result]
  IN IF vector # EMBEDDING_DIM
       THEN retrieved' = Call(Nil, << >>, "none", << >>,
                              [error |-> "Vector dimension mismatch"])
       ELSE \E ranked \in Collections, outcome \in {"points", "undefined", "error"} :
              LET hits == IF outcome = "points" THEN StoreQuery(ranked, params) ELSE << >>
              IN retrieved' =
                   Call(params, ranked, outcome, hits,
                        IF outcome = "error" THEN [error |-> "store error"]
                                             ELSE [results |-> Mapped(hits)])

\* a caller of similaritySearch with arguments of its own
Retrieve ==
  /\ \E dim \in {EMBEDDING_DIM, OtherDim}, topK \in TopKs, threshold \in Thresholds,
        filter \in Filters :
       search("direct", [limit |-> topK, threshold |-> threshold], dim, topK, threshold, filter)
  /\ UNCHANGED <<chat, ingest, api, collectionInfo, spc, clearing>>

\* step 3 of app.post('/chat'):
\* similaritySearch(promptVector, limit || 10, scoreThreshold, filter)
ChatRetrieve ==
  /\ \E embedding \in Embeddings, limit \in TopKs, filter \in Filters :
       search("chat", [limit |-> limit, threshold |-> NoThreshold], embedding.dim,
              IF limit \in {NoLimit, 0} THEN 10 ELSE limit, scoreThreshold, filter)
  /\ UNCHANGED <<chat, ingest, api, collectionInfo, spc, clearing>>

RetrieveNext == Retrieve \/ ChatRetrieve

RetrieveSpec == Init /\ [][RetrieveNext]_vars

\* --------------------------------------------------- createMultiLevelChunks
\* A page is given as the pieces page.split(/\n\n+/) cuts it into, and its
\* text is the pieces joined by blank lines. The paragraph at position i of a
\* page carries i in its text, so that the paragraphs of a page are distinct.
MIN_PARAGRAPH_LENGTH == 100
BlankLine == "\n\n"

RECURSIVE Filler(_)
Filler(n) == IF n = 0 THEN "" ELSE "x" \o Filler(n - 1)

Kinds == {"blank", "header", "short", "long"}
PositionsOfPage == 1..(MaxParagraphs + 1)

\* the pieces a page can hold at position i: whitespace only; a header; a
\* paragraph of MIN_PARAGRAPH_LENGTH - 1 characters behind a space; a
\* paragraph of MIN_PARAGRAPH_LENGTH characters
ShortParagraphs ==
  [i \in PositionsOfPage |-> ToString(i) \o Filler(MIN_PARAGRAPH_LENGTH - 2)]
LongParagraphs ==
  [i \in PositionsOfPage |-> ToString(i) \o Filler(MIN_PARAGRAPH_LENGTH - 1)]
Headers == [i \in PositionsOfPage |-> "# h" \o ToString(i)]

Piece(kind, i) ==
  CASE kind = "blank" -> " "
    [] kind = "header" -> Headers[i]
    [] kind = "short" -> " " \o ShortParagraphs[i]
    [] kind = "long" -> LongParagraphs[i]

\* p.trim()
trim(p) ==
  IF p = " " THEN ""
  ELSE IF \E i \in PositionsOfPage : p = " " \o ShortParagraphs[i]
    THEN ShortParagraphs[CHOOSE i \in PositionsOfPage : p = " " \o ShortParagraphs[i]]
    ELSE p

\* /^#+\s/.test(para)
isHeader(para) == \E i \in PositionsOfPage : para = Headers[i]

\* strs.join(sep)
RECURSIVE join(_, _)
join(strs, sep) ==
  IF strs = << >> THEN ""
  ELSE IF Len(strs) = 1 THEN strs[1]
  ELSE strs[1] \o sep \o join(Tail(strs), sep)

\* page.split(/\n\n+/).map((p) => p.trim()).filter((p) => p.length > 0)
rawParagraphs(page) ==
  SelectSeq([i \in 1..Len(page) |-> trim(page[i])], LAMBDA p : Len(p) > 0)

\* mergeLoop with a header pushed on its own, its body left to the next round
RECURSIVE mergeLoop_HeaderAlone(_, _, _, _)
mergeLoop_HeaderAlone(raw, j, buffer, merged) ==
  IF j > Len(raw) THEN [buffer |-> buffer, mergedParagraphs |-> merged]
  ELSE
    LET para == raw[j]
        hasNext == j + 1 <= Len(raw)
    IN IF isHeader(para)
         THEN mergeLoop_HeaderAlone(raw, j + 1, "", Append(merged, para))
       ELSE IF Len(para) < MIN_PARAGRAPH_LENGTH
         THEN LET grown == IF buffer # "" THEN buffer \o BlankLine \o para ELSE para
              IN IF \/ ~hasNext
                    \/ Len(raw[j + 1]) >= MIN_PARAGRAPH_LENGTH
                    \/ isHeader(raw[j + 1])
                   THEN mergeLoop_HeaderAlone(raw, j + 1, "", Append(merged, grown))
                   ELSE mergeLoop_HeaderAlone(raw, j + 1, grown, merged)
       ELSE LET flushed == IF buffer # "" THEN Append(merged, buffer) ELSE merged
            IN mergeLoop_HeaderAlone(raw, j + 1, "", Append(flushed, para))

\* mergeLoop with every short paragraph pushed at once, nothing accumulated
RECURSIVE mergeLoop_FlushesEveryShort(_, _, _, _)
mergeLoop_FlushesEveryShort(raw, j, buffer, merged) ==
  IF j > Len(raw) THEN [buffer |-> buffer, mergedParagraphs |-> merged]
  ELSE
    LET para == raw[j]
        hasNext == j + 1 <= Len(raw)
    IN IF isHeader(para)
         THEN IF hasNext /\ ~isHeader(raw[j + 1])
                THEN mergeLoop_FlushesEveryShort(raw, j + 2, "",
                       Append(merged, para \o BlankLine \o raw[j + 1]))
                ELSE mergeLoop_FlushesEveryShort(raw, j + 1, "", Append(merged, para))
       ELSE mergeLoop_FlushesEveryShort(raw, j + 1, "", Append(merged, para))

\* mergeLoop whose short branch does not flush in front of a header, so that
\* the header's buffer = para overwrites a buffer that holds text
RECURSIVE mergeLoop_OverwritesBuffer(_, _, _, _)
mergeLoop_OverwritesBuffer(raw, j, buffer, merged) ==
  IF j > Len(raw) THEN [buffer |-> buffer, mergedParagraphs |-> merged]
  ELSE
    LET para == raw[j]
        hasNext == j + 1 <= Len(raw)
    IN IF isHeader(para)
         THEN IF hasNext /\ ~isHeader(raw[j + 1])
                THEN mergeLoop_OverwritesBuffer(raw, j + 2, "",
                       Append(merged, para \o BlankLine \o raw[j + 1]))
                ELSE mergeLoop_OverwritesBuffer(raw, j + 1, "", Append(merged, para))
       ELSE IF Len(para) < MIN_PARAGRAPH_LENGTH
         THEN LET grown == IF buffer # "" THEN buffer \o BlankLine \o para ELSE para
              IN IF ~hasNext \/ Len(raw[j + 1]) >= MIN_PARAGRAPH_LENGTH
                   THEN mergeLoop_OverwritesBuffer(raw, j + 1, "", Append(merged, grown))
                   ELSE mergeLoop_OverwritesBuffer(raw, j + 1, grown, merged)
       ELSE LET flushed == IF buffer # "" THEN Append(merged, buffer) ELSE merged
            IN mergeLoop_OverwritesBuffer(raw, j + 1, "", Append(flushed, para))

\* the merge loop from paragraph j on (j counts from 1), with the buffer and
\* the chunks pushed so far; it returns both as the loop leaves them
RECURSIVE mergeLoop(_, _, _, _)
mergeLoop(raw, j, buffer, merged) ==
  IF j > Len(raw) THEN [buffer |-> buffer, mergedParagraphs |-> merged]
  ELSE
    LET para == raw[j]
        hasNext == j + 1 <= Len(raw)
    IN IF isHeader(para)
         THEN \* buffer = para, whatever the buffer held
              IF hasNext /\ ~isHeader(raw[j + 1])
                THEN mergeLoop(raw, j + 2, "",
                               Append(merged, para \o BlankLine \o raw[j + 1]))
                ELSE mergeLoop(raw, j + 1, "", Append(merged, para))
       ELSE IF Len(para) < MIN_PARAGRAPH_LENGTH
         THEN LET grown == IF buffer # "" THEN buffer \o BlankLine \o para ELSE para
              IN IF \/ ~hasNext
                    \/ Len(raw[j + 1]) >= MIN_PARAGRAPH_LENGTH
                    \/ isHeader(raw[j + 1])
                   THEN mergeLoop(raw, j + 1, "", Append(merged, grown))
                   ELSE mergeLoop(raw, j + 1, grown, merged)
       ELSE LET flushed == IF buffer # "" THEN Append(merged, buffer) ELSE merged
            IN mergeLoop(raw, j + 1, "", Append(flushed, para))

\* the paragraph chunks of one page: the loop, then the flush of what is left
mergedParagraphs(page) ==
  LET end == mergeLoop(rawParagraphs(page), 1, "", << >>)
  IN IF end.buffer # "" THEN Append(end.mergedParagraphs, end.buffer)
     ELSE end.mergedParagraphs

\* new Document({pageContent, metadata}); a key the source leaves out is 0
\* (pageNumber, paragraphIndex) or << >> (pageRange)
Document(file, pageContent, chunkLevel, chunkId, parentIds, pageRange, pageNumber, paragraphIndex) ==
  [pageContent |-> pageContent,
   metadata |-> [fileName |-> file.fileName, filePath |-> file.filePath,
                 fileFormat |-> file.fileFormat, documentHash |-> file.documentHash,
                 chunkLevel |-> chunkLevel, pageRange |-> pageRange,
                 pageNumber |-> pageNumber, paragraphIndex |-> paragraphIndex,
                 chunkId |-> chunkId, parentIds |-> parentIds,
                 embeddingModel |-> EMBEDDING_MODEL]]

documentChunkId(documentHash) == documentHash

\* pageChunkId numbering the pages from 0
pageChunkId_ZeroBased(documentHash, i) == documentHash \o "-" \o ToString(i - 1)

pageChunkId(documentHash, i) == documentHash \o "-" \o ToString(i)
paragraphChunkId(documentHash, pgi, pri) ==
  pageChunkId(documentHash, pgi) \o "-" \o ToString(pri)

\* the text of a page
pageText(page) == join(page, BlankLine)

fullDocument(file) ==
  Document(file, file.fullMarkdown, "document", documentChunkId(file.documentHash),
           << >>, <<1, Len(file.pagesMarkdown)>>, 0, 0)

pageDocuments(file) ==
  [i \in 1..Len(file.pagesMarkdown) |->
     Document(file, pageText(file.pagesMarkdown[i]), "page",
              pageChunkId(file.documentHash, i),
              <<documentChunkId(file.documentHash)>>, << >>, i, 0)]

\* paragraphDocumentsOfPage with the document as the parent of a paragraph
paragraphDocumentsOfPage_ParentIsDocument(file, pgi) ==
  LET merged == mergedParagraphs(file.pagesMarkdown[pgi])
  IN [pri \in 1..Len(merged) |->
        Document(file, merged[pri], "paragraph",
                 paragraphChunkId(file.documentHash, pgi, pri),
                 <<documentChunkId(file.documentHash)>>, << >>, pgi, pri)]

\* paragraphDocumentsOfPage numbering the paragraphs through the whole document
paragraphDocumentsOfPage_NumbersAcrossPages(file, pgi) ==
  LET merged == mergedParagraphs(file.pagesMarkdown[pgi])
      before == IF pgi > 1 THEN Len(mergedParagraphs(file.pagesMarkdown[pgi - 1])) ELSE 0
  IN [pri \in 1..Len(merged) |->
        Document(file, merged[pri], "paragraph",
                 paragraphChunkId(file.documentHash, pgi, before + pri),
                 <<pageChunkId(file.documentHash, pgi)>>, << >>, pgi, before + pri)]

paragraphDocumentsOfPage(file, pgi) ==
  LET merged == mergedParagraphs(file.pagesMarkdown[pgi])
  IN [pri \in 1..Len(merged) |->
        Document(file, merged[pri], "paragraph",
                 paragraphChunkId(file.documentHash, pgi, pri),
                 <<pageChunkId(file.documentHash, pgi)>>, << >>, pgi, pri)]

RECURSIVE paragraphDocuments(_, _)
paragraphDocuments(file, pgi) ==
  IF pgi > Len(file.pagesMarkdown) THEN << >>
  ELSE paragraphDocumentsOfPage(file, pgi) \o paragraphDocuments(file, pgi + 1)

\* createMultiLevelChunks(fullMarkdown, pagesMarkdown, fileName, filePath,
\* fileFormat, documentHash, paragraphChucking), the arguments held by file
createMultiLevelChunks(file) ==
  <<fullDocument(file)>> \o pageDocuments(file)
    \o (IF file.paragraphChucking THEN paragraphDocuments(file, 1) ELSE << >>)

\* the pages with at most MaxParagraphs pieces, the page lists with at most
\* MaxPages pages
PagesOfLength(n) == {[i \in 1..n |-> Piece(k[i], i)] : k \in [1..n -> Kinds]}
Pages == UNION {PagesOfLength(n) : n \in 0..MaxParagraphs}
PageLists == UNION {[1..n -> Pages] : n \in 0..MaxPages}

File(name, hash, pages, paragraphChucking) ==
  [fileName |-> name, filePath |-> "./dataset/" \o name, fileFormat |-> ".pdf",
   documentHash |-> hash, fullMarkdown |-> "markdown of " \o name,
   pagesMarkdown |-> pages, paragraphChucking |-> paragraphChucking]

\* the arguments createMultiLevelChunks is applied to
BuildInputs == {File("a.pdf", "0a1b", pages, b) : pages \in PageLists, b \in BOOLEAN}

\* the chunks of a file are built
createChunks(file) ==
  /\ source' = file
  /\ documents' = createMultiLevelChunks(file)
  /\ ipc' = "chunked"

\* createMultiLevelChunks is called
Build ==
  /\ ipc = "idle"
  /\ \E file \in BuildInputs : createChunks(file)
  /\ UNCHANGED <<points, idCounter, stored>>
  /\ UNCHANGED <<chat, api, vectorStore>>

BuildSpec == Init /\ [][Build]_vars

\* ------------------------------------------------------ the ingestion script

\* the files of ./dataset: a header with its body on one page; two pages of
\* paragraphs; a file without a page (pdfToMarkdown_FEK drops the last page)
Dataset ==
  {File("a.pdf", "0a1b", <<<<Piece("header", 1), Piece("short", 2)>>>>, TRUE),
   File("b.pdf", "9f8e", <<<<Piece("short", 1), Piece("long", 2)>>,
                           <<Piece("long", 1)>>>>, TRUE),
   File("c.pdf", "77c0", << >>, TRUE)}

\* processSingleFile up to the chunks: pdfToMarkdown_FEK, getDocumentHashId
\* and createMultiLevelChunks with paragraph chunks
processSingleFile ==
  /\ ipc = "idle"
  /\ \E file \in Dataset : createChunks(file)
  /\ UNCHANGED <<points, idCounter, stored>>
  /\ UNCHANGED <<chat, api, vectorStore>>

\* multiLevelChunks.filter((chunk) => chunk.pageContent.length < MAX_TOKENS_PER_EMBEDDING * 2)
safeChunks == SelectSeq(documents, LAMBDA chunk : Len(chunk.pageContent) < MAX_TOKENS_PER_EMBEDDING * 2)

\* generateEmbeddingsForChunks: every chunk with the vector the provider
\* returned for it (its length), the tokens used and the document hash
generateEmbeddingsForChunks(chunks, e) ==
  [k \in 1..Len(chunks) |->
     [embedding |-> e.dim,
      metadata |-> chunks[k].metadata,
      tokensUsed |-> e.tokens,
      documentHash |-> source.documentHash,
      rawText |-> chunks[k].pageContent]]

\* generateUniqueId: the md5 of the chunk id, written as a UUID; equal chunk
\* ids give equal UUIDs, different chunk ids different ones
generateUniqueId(chunkId) == "md5(" \o chunkId \o ")"

\* the payload of a point; a || null of an absent value is 0 here
Payload(chunk) ==
  [text |-> chunk.rawText,
   chunkLevel |-> chunk.metadata.chunkLevel,
   pageNumber |-> chunk.metadata.pageNumber,
   documentName |-> chunk.metadata.fileName,
   documentFilePath |-> chunk.metadata.filePath,
   paragraphIndex |-> chunk.metadata.paragraphIndex,
   parentIds |-> chunk.metadata.parentIds,
   fileFormat |-> chunk.metadata.fileFormat,
   tokensUsed |-> chunk.tokensUsed,
   documentHash |-> chunk.documentHash,
   chunkId |-> chunk.metadata.chunkId]

\* client.upsert: a point replaces the point of the same id, if there is one
RECURSIVE upsert(_, _)
upsert(collection, batch) ==
  IF batch = << >> THEN collection
  ELSE upsert({point \in collection : point.id # Head(batch).id} \cup {Head(batch)},
              Tail(batch))

\* storeChunksWithEmbeddings, the points keyed by generateUniqueId(chunkId)
storeChunksWithEmbeddings(chunks) ==
  upsert(points, [k \in 1..Len(chunks) |->
                    [id |-> generateUniqueId(chunks[k].metadata.chunkId),
                     vector |-> chunks[k].embedding,
                     payload |-> Payload(chunks[k])]])

\* storeChunksWithEmbeddings of the service that numbers its points:
\* id: this.idCounter++
storeChunksWithEmbeddingsIdCounter(chunks) ==
  upsert(points, [k \in 1..Len(chunks) |->
                    [id |-> idCounter + k - 1,
                     vector |-> chunks[k].embedding,
                     payload |-> Payload(chunks[k])]])

\* the rest of processSingleFile: the chunks are filtered and embedded and the
\* batch is upserted. The provider fails or returns the vectors; the store
\* takes the batch or refuses it, as it does vectors of another length than
\* the collection's. An error ends the file with nothing stored.
storeEmbeddings ==
  /\ ipc = "chunked"
  /\ \E failed \in BOOLEAN, e \in Embeddings, accepts \in BOOLEAN :
       LET embeddings == generateEmbeddingsForChunks(safeChunks, e)
           upserted == /\ ~failed
                       /\ embeddings # << >>      \* points[0].vector throws on an empty batch
                       /\ accepts /\ e.dim = EMBEDDING_DIM
       IN /\ points' = IF upserted THEN storeChunksWithEmbeddings(embeddings) ELSE points
          /\ stored' = IF upserted THEN source.fileName ELSE stored
  /\ ipc' = "idle"
  /\ UNCHANGED <<source, documents, idCounter>>
  /\ UNCHANGED <<chat, api, vectorStore>>

\* storeEmbeddings with the service that numbers its points; the counter
\* advances with the map over the chunks, whether the upsert succeeds or not
storeEmbeddingsIdCounter ==
  /\ ipc = "chunked"
  /\ idCounter + Len(safeChunks) <= MaxPoints
  /\ \E failed \in BOOLEAN, e \in Embeddings, accepts \in BOOLEAN :
       LET embeddings == generateEmbeddingsForChunks(safeChunks, e)
           upserted == /\ ~failed
                       /\ embeddings # << >>
                       /\ accepts /\ e.dim = EMBEDDING_DIM
       IN /\ points' = IF upserted THEN storeChunksWithEmbeddingsIdCounter(embeddings)
                       ELSE points
          /\ idCounter' = IF failed THEN idCounter ELSE idCounter + Len(embeddings)
          /\ stored' = IF upserted THEN source.fileName ELSE stored
  /\ ipc' = "idle"
  /\ UNCHANGED <<source, documents>>
  /\ UNCHANGED <<chat, api, vectorStore>>

\* a text of MAX_TOKENS_PER_EMBEDDING * 2 characters, and one a character shorter
Twice(text) == text \o text
Fivefold(text) == text \o text \o text \o text \o text
Paragraph125 == Fivefold(Fivefold(Fivefold("x")))
Paragraph1000 == Twice(Twice(Twice(Paragraph125)))
Oversize == Twice(Twice(Twice(Twice(Paragraph1000))))
Largest == SubSeq(Oversize, 1, Len(Oversize) - 1)

\* files of ./dataset with a long text: one page each, the markdown of the
\* whole file of 16000 characters in d.pdf, of 15999 in e.pdf
LargeFiles ==
  {[File("d.pdf", "d4d4", <<<<Piece("header", 1), Piece("short", 2)>>>>, TRUE)
      EXCEPT !.fullMarkdown = Oversize],
   [File("e.pdf", "e5e5", <<<<Piece("long", 1)>>>>, TRUE)
      EXCEPT !.fullMarkdown = Largest]}

\* processSingleFile up to the chunks, for a file with a long text
processLargeFile ==
  /\ ipc = "idle"
  /\ \E file \in LargeFiles : createChunks(file)
  /\ UNCHANGED <<points, idCounter, stored>>
  /\ UNCHANGED <<chat, api, vectorStore>>

IngestNext ==
  \/ processSingleFile
  \/ storeEmbeddings

IngestSpec == Init /\ [][IngestNext]_vars

LargeIngestNext ==
  \/ processSingleFile
  \/ processLargeFile
  \/ storeEmbeddings

LargeIngestSpec == Init /\ [][LargeIngestNext]_vars

CounterIngestNext ==
  \/ processSingleFile
  \/ storeEmbeddingsIdCounter

CounterIngestSpec == Init /\ [][CounterIngestNext]_vars

\* ------------------------------------------------------------- setupQdrant
NoSize == -1              \* a vectors config without a numeric size
\* setupQdrant is not running
AtRest == spc.at \in {"idle", "done", "failed"}

\* setupQdrant is called: getCollection is sent. again: the call follows a
\* setupQdrant that returned, with nobody else at the collection in between;
\* dropped: this call has deleted the collection
setupQdrant ==
  /\ AtRest
  /\ spc' = [at |-> "getCollection", again |-> spc.at = "done", dropped |-> FALSE]
  /\ UNCHANGED <<chat, ingest, api, retrieved, collectionInfo, clearing>>

\* getCollectionReturn deleting the collection whatever its dimension
getCollectionReturn_AlwaysRecreates ==
  /\ spc.at = "getCollection"
  /\ \E failed \in BOOLEAN :
       spc' = [spc EXCEPT !.at = IF collectionInfo = Nil \/ failed THEN "createCollection"
                                 ELSE "deleteCollection"]
  /\ UNCHANGED <<chat, ingest, api, retrieved, collectionInfo, clearing>>

\* getCollection is over. It threw (no collection, or the store failed): the
\* catch goes on to createCollection. It returned the config: a vectors
\* config without a numeric size, or of another size than embeddingDim, goes
\* on to deleteCollection; the size of embeddingDim returns
getCollectionReturn ==
  /\ spc.at = "getCollection"
  /\ \E failed \in BOOLEAN :
       spc' = [spc EXCEPT !.at =
                 IF collectionInfo = Nil \/ failed THEN "createCollection"
                 ELSE LET vectorsConfig == collectionInfo
                      IN IF vectorsConfig.size = NoSize THEN "deleteCollection"
                         ELSE IF vectorsConfig.size # EMBEDDING_DIM THEN "deleteCollection"
                         ELSE "done"]
  /\ UNCHANGED <<chat, ingest, api, retrieved, collectionInfo, clearing>>

\* deleteCollection is over: the collection and its points are gone, or the
\* store failed; the error is caught and createCollection is next either way
deleteCollectionReturn ==
  /\ spc.at = "deleteCollection"
  /\ \E failed \in BOOLEAN :
       /\ collectionInfo' = IF failed THEN collectionInfo ELSE Nil
       /\ points' = IF failed THEN points ELSE {}
       /\ spc' = [spc EXCEPT !.at = "createCollection", !.dropped = ~failed]
  /\ UNCHANGED <<ipc, source, documents, idCounter, stored>>
  /\ UNCHANGED <<chat, api, retrieved, clearing>>

\* createCollection is over: the store refuses a collection that exists, or
\* fails, and setupQdrant throws; else the collection is there, of embeddingDim
createCollectionReturn ==
  /\ spc.at = "createCollection"
  /\ \E failed \in BOOLEAN :
       IF collectionInfo # Nil \/ failed
         THEN /\ spc' = [spc EXCEPT !.at = "failed"]
              /\ UNCHANGED collectionInfo
         ELSE /\ spc' = [spc EXCEPT !.at = "done"]
              /\ collectionInfo' = [size |-> EMBEDDING_DIM]
  /\ UNCHANGED <<chat, ingest, api, retrieved, clearing>>

\* a point of a collection of another size, stored by somebody else
ForeignPoint(size) == [id |-> "md5(other)", vector |-> size, payload |-> Nil]

\* the collection is shared: between two setups somebody else drops it or
\* puts one of another vectors config in its place
Replaced ==
  /\ AtRest
  /\ ipc = "idle"
  /\ \E info \in {Nil, [size |-> OtherDim], [size |-> NoSize]}, filled \in BOOLEAN :
       /\ collectionInfo' = info
       /\ points' = IF info = Nil \/ ~filled THEN {} ELSE {ForeignPoint(info.size)}
  /\ spc' = [at |-> "idle", again |-> FALSE, dropped |-> FALSE]
  /\ UNCHANGED <<ipc, source, documents, idCounter, stored>>
  /\ UNCHANGED <<chat, api, retrieved, clearing>>

\* the ingestion script stores a file in the collection that was set up
IngestAfterSetup ==
  /\ spc.at = "done"
  /\ \/ processSingleFile
     \/ storeEmbeddings

SetupNext ==
  \/ setupQdrant
  \/ getCollectionReturn
  \/ deleteCollectionReturn
  \/ createCollectionReturn
  \/ Replaced
  \/ IngestAfterSetup

SetupSpec == Init /\ [][SetupNext]_vars

\* --------------------------------------------------------- clearCollection
ScrollLimit == 10000      \* client.scroll(collectionName, {limit: 10000, ...})

\* the numbers of points the collection holds when it is cleared: few, or
\* about as many as a scroll returns
HeldCounts == 0..MaxFew \cup (ScrollLimit - 1)..(ScrollLimit + MaxOver)

\* the i-th point of a collection somebody filled
HeldPoint(i) == [id |-> i, vector |-> EMBEDDING_DIM, payload |-> Nil]

\* the held points without the k of the highest ids
RECURSIVE DropLast(_, _)
DropLast(held, k) ==
  IF k = 0 THEN held
  ELSE LET ids == {p.id : p \in held}
           last == CHOOSE p \in held : p.id + 1 \notin ids /\ \A q \in held : q.id <= p.id
       IN DropLast(held \ {last}, k - 1)

\* client.scroll: the points in the order of their ids, at most limit of them
scroll(held, limit) == DropLast(held, Max(0, Cardinality(held) - limit))

\* the collection is not being cleared
Unoccupied == clearing.at \in {"idle", "done", "failed"}

\* the empty collection was filled by earlier ingestions
Held ==
  /\ Unoccupied
  /\ points = {}
  /\ \E n \in HeldCounts : points' = {HeldPoint(i) : i \in 1..n}
  /\ clearing' = [at |-> "idle", pointIds |-> {}]
  /\ UNCHANGED <<ipc, source, documents, idCounter, stored>>
  /\ UNCHANGED <<chat, api, retrieved, collectionInfo, spc>>

\* clearCollection is called: the scroll is sent
clearCollection ==
  /\ Unoccupied
  /\ clearing' = [at |-> "scroll", pointIds |-> {}]
  /\ UNCHANGED <<chat, ingest, api, retrieved, collectionInfo, spc>>

\* the scroll is over: it failed (rethrown), or it returned no point ("already
\* empty") or the ids of at most 10000 points, for which the delete is sent
scrollReturn ==
  /\ clearing.at = "scroll"
  /\ \E failed \in BOOLEAN :
       LET scrollResult == scroll(points, ScrollLimit)
       IN clearing' = IF failed THEN [at |-> "failed", pointIds |-> {}]
                      ELSE IF scrollResult = {} THEN [at |-> "done", pointIds |-> {}]
                      ELSE [at |-> "delete", pointIds |-> {point.id : point \in scrollResult}]
  /\ UNCHANGED <<chat, ingest, api, retrieved, collectionInfo, spc>>

\* the delete is over: it failed (rethrown) or the points of the ids are gone
deleteReturn ==
  /\ clearing.at = "delete"
  /\ \E failed \in BOOLEAN :
       /\ points' = IF failed THEN points
                    ELSE {point \in points : point.id \notin clearing.pointIds}
       /\ clearing' = [at |-> IF failed THEN "failed" ELSE "done", pointIds |-> {}]
  /\ UNCHANGED <<ipc, source, documents, idCounter, stored>>
  /\ UNCHANGED <<chat, api, retrieved, collectionInfo, spc>>

ClearNext ==
  \/ Held
  \/ clearCollection
  \/ scrollReturn
  \/ deleteReturn

ClearSpec == Init /\ [][ClearNext]_vars

\* ------------------------------------------------------------ properties
SessionRows(s) == SelectSeq(ledger, LAMBDA row : row.session_id = s)
RowsOf(r) == {i \in 1..Len(ledger) : ledger[i].req = r}
CallIssued(r) == phase[r] # "call" /\ phase'[r] = "call"

\* C1: any two provider calls of the shared client, of the same or of
\* different requests, are issued at least minDelayMs apart. Stated on the
\* step that issues a call: the call before it is at least minDelayMs old.
C1_RatePacing ==
  [][\A r \in Requests : CallIssued(r) => lastCallAge >= minDelayMs]_vars

\* C2: the turns of a session alternate user, assistant in write order, each
\* user turn immediately followed by the assistant turn of the same request
\* (the latest user turn may still wait for its assistant turn), also when
\* requests of one session run concurrently. Stated for runs in which every
\* INSERT succeeded, so that only the interleaving is at stake.
Adjacent(rows) ==
  \A i \in 1..Len(rows) :
    /\ rows[i].role = "user" =>
         \/ i = Len(rows)
         \/ rows[i + 1].role = "assistant" /\ rows[i + 1].req = rows[i].req
    /\ rows[i].role = "assistant" =>
         /\ i > 1
         /\ rows[i - 1].role = "user" /\ rows[i - 1].req = rows[i].req

NoWriteFailed == \A r \in Requests : \A i \in 1..Len(log[r].writes) : log[r].writes[i][2]

C2_UserAssistantAdjacency ==
  NoWriteFailed => \A s \in AllSessions : Adjacent(SessionRows(s))

\* C3: every assistant turn in the ledger has the user turn of its request
\* stored before it in the same session, whichever INSERT failed.
C3_AssistantHasUser ==
  \A i \in 1..Len(ledger) :
    ledger[i].role = "assistant" =>
      \E j \in 1..(i - 1) :
        /\ ledger[j].role = "user"
        /\ ledger[j].req = ledger[i].req
        /\ ledger[j].session_id = ledger[i].session_id

\* C4: one call of generateAnswerFromResults makes at most two attempts at
\* the provider (the first and one retry after a 429).
C4_SynthRetriesOnce ==
  \A r \in Requests : pc[r] = "synth" => attempts[r] <= 2

Fallback(r) == [generatedUserPrompt |-> input[r].prompt, tokensUsed |-> 0]
Apology == [generatedAnswer |-> APOLOGY, tokensUsed |-> 0]
\* generateCleanUserPrompt is the latest provider function r called into
Refining(r) == log[r].fn = "refine"
Embedding(r) == log[r].fn = "embed"
Synthesizing(r) == log[r].fn = "synth"

\* C5 as claimed: whenever an attempt of generateCleanUserPrompt failed,
\* by throttling or otherwise, the function returns the raw query with
\* tokensUsed = 0.
C5_AnyFailureFallsBack ==
  \A r \in Requests :
    (Refining(r) /\ pc[r] = "embed" /\ log[r].outcomes \cap {"throttle", "fail"} # {})
      => cleanedPrompt[r] = Fallback(r)

\* C5 as amended: generateCleanUserPrompt never raises; a failure other than
\* throttling makes it return the raw query with tokensUsed = 0; a throttled
\* attempt is not an end of the call, which returns only on an answer or on a
\* failure other than throttling.
C5_RefineFallback ==
  \A r \in Requests :
    Refining(r) =>
      /\ pc[r] \in {"refine", "embed"}
      /\ response[r] = Nil
      /\ "fail" \in log[r].outcomes => pc[r] = "embed" /\ cleanedPrompt[r] = Fallback(r)
      /\ pc[r] = "refine" => cleanedPrompt[r] = Nil /\ log[r].outcomes \subseteq {"throttle"}
      /\ pc[r] = "embed" => cleanedPrompt[r] # Nil /\ log[r].outcomes \cap {"ok", "fail"} # {}

\* a refinement that was throttled, retried and then failed has fallen back
C5_Witness ==
  \E r \in Requests :
    /\ Refining(r) /\ pc[r] = "embed"
    /\ log[r].outcomes = {"throttle", "fail"}
    /\ cleanedPrompt[r] = Fallback(r)

\* C6: every call of generateCleanUserPrompt terminates, also when the
\* provider throttles every attempt.
C6_RefineTerminates ==
  \A r \in Requests : (pc[r] = "refine") ~> (pc[r] # "refine")

\* C7: when generateAnswerFromResults ends on a failure other than
\* throttling it returns the apology with tokensUsed = 0, and the request
\* goes on: both INSERTs are attempted, user turn first, each one the store
\* accepts is in the ledger, the assistant turn holding the apology, and the
\* response is a 200 with the apology as the answer.
Stored(r, role, content) ==
  \E i \in RowsOf(r) : ledger[i].role = role /\ ledger[i].content = content

C7_SynthFailureIsAnswered ==
  \A r \in Requests :
    (Synthesizing(r) /\ "fail" \in log[r].outcomes) =>
      /\ pc[r] \in {"storeUser", "storeAssistant", "done"}
      /\ pc[r] # "done" => answer[r] = Apology
      /\ pc[r] = "storeUser" => log[r].writes = << >>
      /\ pc[r] = "storeAssistant" => Len(log[r].writes) = 1
      /\ Len(log[r].writes) >= 1 =>
           /\ log[r].writes[1][1] = "user"
           /\ log[r].writes[1][2] => Stored(r, "user", input[r].prompt)
      /\ pc[r] = "done" =>
           /\ Len(log[r].writes) = 2
           /\ log[r].writes[2][1] = "assistant"
           /\ log[r].writes[2][2] => Stored(r, "assistant", APOLOGY)
           /\ response[r].status = 200
           /\ response[r].answer = APOLOGY

\* a request whose synthesis failed has answered 200 with both turns stored
C7_Witness ==
  \E r \in Requests :
    /\ Synthesizing(r) /\ "fail" \in log[r].outcomes
    /\ pc[r] = "done" /\ response[r].status = 200
    /\ Stored(r, "user", input[r].prompt) /\ Stored(r, "assistant", APOLOGY)

\* C8: createEmbedding answers a 429 with the backoff and one more attempt
\* through rateLimit, without a cap: it ends only on the provider's vector
\* or on a failure other than throttling, never on a throttled attempt and
\* never with a value the provider did not return; with a provider that
\* does not throttle for ever it ends.
C8_EmbedSafe(r) ==
  /\ (pc[r] = "embed" /\ phase[r] = "call") => log[r].gates = attempts[r]
  /\ ~log[r].earlyRetry
  /\ (pc[r] = "embed" /\ response[r] = Nil) => promptEmbedding[r] = Nil
  /\ (Embedding(r) /\ pc[r] = "done" /\ response[r].error = "provider error")
       => "fail" \in log[r].outcomes
  /\ (Embedding(r) /\ "ok" \notin log[r].outcomes /\ "fail" \notin log[r].outcomes)
       => pc[r] = "embed"
  /\ promptEmbedding[r] # Nil =>
       \E e \in Embeddings :
         promptEmbedding[r] = [embedding |-> e.dim, tokensUsed |-> e.tokens]
  /\ (Embedding(r) /\ pc[r] = "search") => "ok" \in log[r].outcomes

C8_EmbedRetriesUntilAnswered ==
  \A r \in Requests :
    /\ [] C8_EmbedSafe(r)
    /\ (pc[r] = "embed") ~> (promptEmbedding[r] # Nil \/ "fail" \in log[r].outcomes)

\* the vector came back on the attempt after MaxAttempts - 1 throttled ones
C8_Witness ==
  \E r \in Requests :
    /\ Embedding(r) /\ pc[r] = "search"
    /\ attempts[r] = MaxAttempts
    /\ log[r].outcomes = {"throttle", "ok"}
    /\ promptEmbedding[r] # Nil

Mismatch(r) == promptEmbedding[r] # Nil /\ promptEmbedding[r].embedding # EMBEDDING_DIM

C10_DimensionMismatchIsFatal ==
  \A r \in Requests :
    /\ Mismatch(r) => pc[r] = "search" /\ Embedding(r) /\ ~log[r].queryIssued
    /\ (response[r] # Nil /\ response[r].error = "Vector dimension mismatch") =>
         /\ pc[r] = "done"
         /\ response[r].status = 500
         /\ response[r].answer = None
         /\ Embedding(r) /\ log[r].outcomes = {"ok"}
         /\ ~log[r].queryIssued
         /\ log[r].writes = << >>
         /\ RowsOf(r) = {}

C10_Witness ==
  \E r \in Requests :
    /\ pc[r] = "done"
    /\ response[r].error = "Vector dimension mismatch"


\* ------------------------------------------- properties of the chunk builder
\* createMultiLevelChunks has returned: documents is its result, source its arguments
Built == ipc = "chunked"
PageNumbers == 1..Len(source.pagesMarkdown)
ChunkIndexes == 1..Len(documents)
LevelOf(d) == d.metadata.chunkLevel
LevelAbove(level) == IF level = "paragraph" THEN "page" ELSE "document"

\* the paragraph chunks of page p in the order of the result, and their texts
ParagraphChunks(p) ==
  SelectSeq(documents, LAMBDA d : LevelOf(d) = "paragraph" /\ d.metadata.pageNumber = p)
ParagraphTexts(p) == [k \in 1..Len(ParagraphChunks(p)) |-> ParagraphChunks(p)[k].pageContent]

\* the non-empty blank-line-separated paragraphs of page p, in page order
Paragraphs(p) ==
  LET page == source.pagesMarkdown[p]
      kept == SelectSeq(page, LAMBDA piece : piece # " ")
  IN [i \in 1..Len(kept) |-> trim(kept[i])]

\* the text of paragraphs a..b of raw, as one chunk holds it
Run(raw, a, b) == join(SubSeq(raw, a, b), BlankLine)
\* chunk text holds paragraph j of raw
Holds(text, raw, j) == \E a \in 1..j, b \in j..Len(raw) : text = Run(raw, a, b)
IsShort(para) == ~isHeader(para) /\ Len(para) < MIN_PARAGRAPH_LENGTH
IsLong(para) == ~isHeader(para) /\ Len(para) >= MIN_PARAGRAPH_LENGTH
\* paragraph j directly follows a header and is not one
FollowsHeader(raw, j) == j > 1 /\ isHeader(raw[j - 1]) /\ ~isHeader(raw[j])

\* C11: every page or paragraph chunk of the result names as parentIds[0]
\* the id of exactly one chunk of the same result, and that chunk is of the
\* level immediately above (document for a page, page for a paragraph).
C11_HierarchyIntegrity ==
  Built =>
    \A i \in ChunkIndexes :
      LET c == documents[i]
          parents == {k \in ChunkIndexes :
                        documents[k].metadata.chunkId = c.metadata.parentIds[1]}
      IN LevelOf(c) # "document" =>
           /\ Len(c.metadata.parentIds) >= 1
           /\ Cardinality(parents) = 1
           /\ \A k \in parents : LevelOf(documents[k]) = LevelAbove(LevelOf(c))

\* two pages, each with a paragraph chunk
C11_Witness ==
  /\ Built
  /\ Len(source.pagesMarkdown) = 2
  /\ \A p \in PageNumbers : Len(ParagraphChunks(p)) >= 1

\* C12: a header directly followed by a paragraph that is not a header is
\* emitted with it as one chunk, header first, and neither is part of any
\* other chunk; a header that is last on its page or followed by a header
\* is a chunk of its own.
C12_HeaderTakesItsBody ==
  (Built /\ source.paragraphChucking) =>
    \A p \in PageNumbers :
      LET raw == Paragraphs(p)
          texts == ParagraphTexts(p)
      IN \A j \in 1..Len(raw) :
           isHeader(raw[j]) =>
             IF j < Len(raw) /\ ~isHeader(raw[j + 1])
               THEN \E k \in 1..Len(texts) :
                      /\ texts[k] = raw[j] \o BlankLine \o raw[j + 1]
                      /\ \A other \in 1..Len(texts) \ {k} :
                           ~Holds(texts[other], raw, j) /\ ~Holds(texts[other], raw, j + 1)
               ELSE \E k \in 1..Len(texts) : texts[k] = raw[j]

\* a page that is a header and its body gave one chunk
C12_Witness ==
  /\ Built /\ source.paragraphChucking
  /\ \E p \in PageNumbers :
       /\ Len(Paragraphs(p)) = 2
       /\ isHeader(Paragraphs(p)[1]) /\ ~isHeader(Paragraphs(p)[2])
       /\ Len(ParagraphTexts(p)) = 1

\* the paragraphs a..b of raw are a longest stretch of paragraphs that all satisfy In
Stretch(raw, a, b, In(_)) ==
  /\ a <= b
  /\ \A j \in a..b : In(j)
  /\ a > 1 => ~In(a - 1)
  /\ b < Len(raw) => ~In(b + 1)

\* C13 as claimed: every longest stretch of consecutive short paragraphs
\* that are not headers is emitted as one chunk, and a long paragraph that
\* does not follow a header is a chunk of its own.
C13_ShortRunsMerge ==
  (Built /\ source.paragraphChucking) =>
    \A p \in PageNumbers :
      LET raw == Paragraphs(p)
          texts == ParagraphTexts(p)
      IN /\ \A a, b \in 1..Len(raw) :
              Stretch(raw, a, b, LAMBDA j : IsShort(raw[j])) =>
                \E k \in 1..Len(texts) : texts[k] = Run(raw, a, b)
         /\ \A j \in 1..Len(raw) :
              (IsLong(raw[j]) /\ ~FollowsHeader(raw, j)) =>
                \E k \in 1..Len(texts) : texts[k] = raw[j]

\* C13 as amended: the short paragraphs that are not headers and do not
\* directly follow a header accumulate: every longest stretch of them is
\* emitted as one chunk, which closes exactly where the next paragraph is
\* long, is a header or does not exist; a long paragraph that does not
\* follow a header is a chunk of its own.
Buffered(raw, j) == IsShort(raw[j]) /\ ~FollowsHeader(raw, j)

C13_BufferedRunsMerge ==
  (Built /\ source.paragraphChucking) =>
    \A p \in PageNumbers :
      LET raw == Paragraphs(p)
          texts == ParagraphTexts(p)
      IN /\ \A a, b \in 1..Len(raw) :
              Stretch(raw, a, b, LAMBDA j : Buffered(raw, j)) =>
                /\ \E k \in 1..Len(texts) : texts[k] = Run(raw, a, b)
                /\ b < Len(raw) => Len(raw[b + 1]) >= MIN_PARAGRAPH_LENGTH \/ isHeader(raw[b + 1])
         /\ \A j \in 1..Len(raw) :
              (IsLong(raw[j]) /\ ~FollowsHeader(raw, j)) =>
                \E k \in 1..Len(texts) : texts[k] = raw[j]

\* a page of two short paragraphs and a long one gave two chunks
C13_Witness ==
  /\ Built /\ source.paragraphChucking
  /\ \E p \in PageNumbers :
       LET raw == Paragraphs(p)
       IN /\ Len(raw) = 3
          /\ IsShort(raw[1]) /\ IsShort(raw[2]) /\ IsLong(raw[3])
          /\ ParagraphTexts(p) = <<raw[1] \o BlankLine \o raw[2], raw[3]>>

\* C14: the paragraph chunks of a page, joined in order, are the non-empty
\* paragraphs of the page in page order, each once; no chunk is empty and a
\* page without a non-empty paragraph gives no paragraph chunk.
C14_ParagraphsPartitionPage ==
  (Built /\ source.paragraphChucking) =>
    \A p \in PageNumbers :
      LET raw == Paragraphs(p)
          texts == ParagraphTexts(p)
      IN /\ join(texts, BlankLine) = join(raw, BlankLine)
         /\ \A k \in 1..Len(texts) :
              \E a, b \in 1..Len(raw) : a <= b /\ texts[k] = Run(raw, a, b)
         /\ raw = << >> => texts = << >>
         /\ Len(texts) <= Len(raw)

\* a page with a blank piece, and short paragraphs in front of a header
C14_Witness ==
  /\ Built /\ source.paragraphChucking
  /\ \E p \in PageNumbers :
       LET raw == Paragraphs(p)
       IN /\ Len(raw) = 2 /\ Len(source.pagesMarkdown[p]) = 3
          /\ IsShort(raw[1]) /\ isHeader(raw[2])
          /\ ParagraphTexts(p) = raw

\* C15: the result starts with the one document chunk, whose id is the
\* document hash and whose parentIds is empty; then come the page chunks,
\* one per page in page order, page i with id hash-i, pageNumber i and
\* parentIds = [hash]; with or without paragraph chunks.
C15_DocumentThenPages ==
  Built =>
    LET n == Len(source.pagesMarkdown)
        hash == source.documentHash
    IN /\ Len(documents) >= 1 + n
       /\ LevelOf(documents[1]) = "document"
       /\ documents[1].metadata.chunkId = hash
       /\ documents[1].metadata.parentIds = << >>
       /\ documents[1].pageContent = source.fullMarkdown
       /\ \A i \in 1..n :
            /\ LevelOf(documents[1 + i]) = "page"
            /\ documents[1 + i].metadata.chunkId = hash \o "-" \o ToString(i)
            /\ documents[1 + i].metadata.pageNumber = i
            /\ documents[1 + i].metadata.parentIds = <<hash>>
            /\ documents[1 + i].pageContent = pageText(source.pagesMarkdown[i])
       /\ \A k \in ChunkIndexes :
            /\ LevelOf(documents[k]) = "document" => k = 1
            /\ LevelOf(documents[k]) = "page" => k \in 2..(1 + n)
       /\ ~source.paragraphChucking => Len(documents) = 1 + n

\* two pages built without paragraph chunks
C15_Witness ==
  /\ Built /\ ~source.paragraphChucking
  /\ Len(source.pagesMarkdown) = 2
  /\ Len(documents) = 3

\* C16: the paragraph chunks of page p are numbered 1..k in the order they
\* were emitted: the n-th has id hash-p-n, paragraphIndex n, pageNumber p and
\* parentIds = [hash-p]; the numbering starts again at 1 on every page.
C16_ParagraphNumbering ==
  (Built /\ source.paragraphChucking) =>
    \A p \in PageNumbers :
      LET chunks == ParagraphChunks(p)
          pageId == source.documentHash \o "-" \o ToString(p)
      IN /\ Len(chunks) = Len(mergedParagraphs(source.pagesMarkdown[p]))
         /\ \A n \in 1..Len(chunks) :
              /\ chunks[n].metadata.chunkId = pageId \o "-" \o ToString(n)
              /\ chunks[n].metadata.paragraphIndex = n
              /\ chunks[n].metadata.parentIds = <<pageId>>
              /\ chunks[n].pageContent = mergedParagraphs(source.pagesMarkdown[p])[n]

\* two pages with two paragraph chunks each
C16_Witness ==
  /\ Built /\ source.paragraphChucking
  /\ Len(source.pagesMarkdown) = 2
  /\ \A p \in PageNumbers : Len(ParagraphChunks(p)) = 2


\* --------------------------------------------------- properties of ingestion
\* C17: storing the chunks of a document again, right after they were
\* stored, leaves the collection as it was: the points of the second upsert
\* have the ids of the first and replace them, none is added.
C17_ReingestionIsIdempotent ==
  [][(ipc = "chunked" /\ stored = source.fileName) => points' = points]_vars


\* --------------------------------------------------- properties of the ledger
Supplied(r) == input[r].sessionId # NoSession
\* id is an id minted for r: no supplied id, and not the id of another request
Minted(id, r) ==
  /\ id \notin Sessions \cup {NoSession, None}
  /\ \A q \in Requests \ {r} :
       /\ finalSessionId[q] # id
       /\ response[q] # Nil => response[q].sessionId # id
       /\ \A i \in RowsOf(q) : ledger[i].session_id # id
Resolves(id, r) == IF Supplied(r) THEN id = input[r].sessionId ELSE Minted(id, r)

\* C18: storeChatConversation attempts the user INSERT before the assistant
\* INSERT, stamps both rows with one session id, which is the supplied id
\* when one was supplied and a newly minted id otherwise, and returns that id.
C18_OneResolvedSessionId ==
  \A r \in Requests :
    /\ pc[r] \in {"storeUser", "storeAssistant"} =>
         /\ Resolves(finalSessionId[r], r)
         /\ \A i \in RowsOf(r) : ledger[i].session_id = finalSessionId[r]
    /\ (pc[r] = "done" /\ response[r].status = 200) =>
         /\ Resolves(response[r].sessionId, r)
         /\ \A i \in RowsOf(r) : ledger[i].session_id = response[r].sessionId
         /\ Len(log[r].writes) = 2
    /\ Len(log[r].writes) >= 1 => log[r].writes[1][1] = "user"
    /\ Len(log[r].writes) >= 2 => log[r].writes[2][1] = "assistant"
    /\ Len(log[r].writes) <= 2
    /\ \A i, j \in RowsOf(r) :
         (ledger[i].role = "user" /\ ledger[j].role = "assistant") => i < j

\* one request recorded its exchange under the id it supplied, the other
\* under an id minted for it
C18_Witness ==
  \E r, q \in Requests :
    /\ pc[r] = "done" /\ response[r].status = 200 /\ Supplied(r)
    /\ Cardinality(RowsOf(r)) = 2
    /\ pc[q] = "done" /\ response[q].status = 200 /\ ~Supplied(q)
    /\ Cardinality(RowsOf(q)) = 2
    /\ response[q].sessionId = MintSessionId(q)

\* C19: whichever INSERT fails, the failure is not surfaced: the user INSERT
\* is followed by the assistant INSERT with the session id unchanged, and
\* the assistant INSERT by the 200 response that carries the answer, the
\* results and the resolved session id, never by an error.
C19_StorageFailureNotSurfaced ==
  [][\A r \in Requests :
       /\ (pc[r] = "storeUser" /\ pc'[r] # "storeUser") =>
            /\ pc'[r] = "storeAssistant"
            /\ response'[r] = Nil
            /\ finalSessionId'[r] = finalSessionId[r]
       /\ (pc[r] = "storeAssistant" /\ pc'[r] # "storeAssistant") =>
            /\ pc'[r] = "done"
            /\ response'[r] = [status |-> 200, error |-> None,
                               answer |-> answer[r].generatedAnswer,
                               results |-> results[r].points,
                               count |-> Len(results[r].points),
                               relativeDocs |-> relativeDocs(r),
                               genTokensUsed |-> cleanedPrompt[r].tokensUsed + answer[r].tokensUsed,
                               embTokensUsed |-> promptEmbedding[r].tokensUsed,
                               sessionId |-> finalSessionId[r]]]_vars

\* both INSERTs of a request failed and it was answered 200 with its results
C19_Witness ==
  \E r \in Requests :
    /\ pc[r] = "done"
    /\ log[r].writes = << <<"user", FALSE>>, <<"assistant", FALSE>> >>
    /\ RowsOf(r) = {}
    /\ response[r].status = 200
    /\ response[r].results # << >>
    /\ response[r].sessionId = MintSessionId(r)

\* C20: after n exchanges recorded in turn on one session, the first
\* without a session id and the others with the id returned, and no INSERT
\* failed, getChatHistory(id, limit) with limit >= 2n returns the 2n rows
\* of the session, the most recent first: assistant, user, ..., assistant, user.
Exchanges(r) == Len(log[r].writes) \div 2
Limits(n) == {2 * n, 2 * n + 1, HistoryLimit, 50}
BetweenExchanges(r) == pc[r] \notin {"storeUser", "storeAssistant"}

C20_SessionContinuity ==
  \A r \in Requests :
    LET n == Exchanges(r)
        sid == MintSessionId(r)
    IN (BetweenExchanges(r) /\ NoWriteFailed /\ n >= 1 /\ ledger[1].session_id = sid) =>
         \A limit \in Limits(n) :
           LET history == getChatHistory(sid, limit)
           IN /\ Len(history) = 2 * n
              /\ \A i \in 1..Len(history) :
                   /\ ledger[history[i]].session_id = sid
                   /\ ledger[history[i]].role = IF i % 2 = 1 THEN "assistant" ELSE "user"
                   /\ i < Len(history) => history[i] > history[i + 1]

\* MaxExchanges exchanges were recorded on a minted session
C20_Witness ==
  \E r \in Requests :
    /\ pc[r] = "done" /\ NoWriteFailed
    /\ Exchanges(r) = MaxExchanges
    /\ ledger[1].session_id = MintSessionId(r)
    /\ Len(getChatHistory(MintSessionId(r), HistoryLimit)) = 2 * MaxExchanges


\* ------------------------------------------------- the ledger's endpoints
Replied(endpoint) == reply # Nil /\ reply.endpoint = endpoint

\* a history of the session s, of at most limit rows
Scoped(history, s, limit) ==
  /\ s = NoSession => history = << >>
  /\ Len(history) <= limit
  /\ \A k \in 1..Len(history) : ledger[history[k]].session_id = s

\* C21: history is scoped to a session. Whatever the ledger holds,
\* getChatHistory without a session id is empty and getChatHistory(s, limit)
\* has at most limit rows, all of them rows of session s; so has the answer
\* of GET /history; and a POST /chat without a sessionId reads no history: it
\* is never waiting for getChatHistory and its chatHistory stays empty.
C21_HistoryIsScoped ==
  /\ \A s \in SessionQueries, limit \in 0..(2 * MaxExchanges) :
       Scoped(getChatHistory(s, limit), s, limit)
  /\ Replied("history") => Scoped(reply.history, reply.sessionId, reply.limit)
  /\ \A r \in Requests :
       input[r] # Nil /\ input[r].sessionId = NoSession =>
         pc[r] # "history" /\ chatHistory[r] = << >>

\* the history of a session was asked for with a limit below the number of
\* its rows, while the ledger holds rows of another session as well
C21_Witness ==
  /\ Replied("history")
  /\ reply.limit = 1
  /\ Len(reply.history) = 1
  /\ Len(SessionRows(reply.sessionId)) >= 2
  /\ Cardinality(AllSessions) >= 2


\* the rows of the ledger that are assistant rows, and the ratings given
AssistantRows == {i \in 1..Len(ledger) : ledger[i].role = "assistant"}
Ratings == {"good", "bad"}

\* C22: a feedback with a message id and a rating of good or bad is answered
\* with a 200 whatever the id, and in the step that answers it the ledger
\* keeps its rows, every row but the assistant row with that id is unchanged
\* and that row differs at most in answer_val, which becomes the rating
\* given: with the id of no row or of a user row the ledger is unchanged.
C22_FeedbackFrame ==
  [][Replied("feedback")' /\ reply'.messageId # 0 /\ reply'.answerVal \in Ratings =>
       /\ reply'.status = 200
       /\ Len(ledger') = Len(ledger)
       /\ \A i \in 1..Len(ledger) :
            IF ledger[i].id = reply'.messageId /\ ledger[i].role = "assistant"
              THEN ledger'[i] \in {ledger[i],
                                   [ledger[i] EXCEPT !.answer_val = reply'.answerVal]}
              ELSE ledger'[i] = ledger[i]]_vars

\* the feedback scenario: of two assistant rows the second was rated bad and
\* the first is still unrated
C22_Witness ==
  /\ Replied("feedback")
  /\ reply.status = 200
  /\ Cardinality(AssistantRows) = 2
  /\ \E i, j \in AssistantRows :
       /\ i < j
       /\ reply.messageId = ledger[j].id
       /\ ledger[j].answer_val = "bad"
       /\ ledger[i].answer_val = None

\* C23: the lifecycle of answer_val. In every step, a row that is added is
\* unrated, a row whose answer_val changes is an assistant row, the step is
\* the answer to a feedback that names the id of that row, and the new value
\* is the rating of that feedback; so no step of /chat, /history or /all
\* changes a rating, and the rows of role user are unrated in every state.
C23_RatingLifecycle ==
  [][/\ Len(ledger') >= Len(ledger)
     /\ \A i \in 1..Len(ledger') :
          /\ i > Len(ledger) => ledger'[i].answer_val = None
          /\ ledger'[i].role = "user" => ledger'[i].answer_val = None
          /\ ledger'[i].answer_val \in Ratings \cup {None}
          /\ i <= Len(ledger) /\ ledger'[i].answer_val # ledger[i].answer_val =>
               /\ ledger[i].role = "assistant"
               /\ Replied("feedback")'
               /\ reply'.status = 200
               /\ reply'.messageId = ledger[i].id
               /\ reply'.answerVal = ledger'[i].answer_val]_vars

\* a later exchange is writing its rows to a ledger that holds a rated answer
C23_Witness ==
  /\ pc["r1"] = "storeAssistant"
  /\ \E i \in AssistantRows : ledger[i].answer_val = "good"
  /\ \E i \in 1..Len(ledger) : ledger[i].role = "user"

\* C24: invalid input is rejected with no side effect. A request without a
\* prompt is answered with a 400 in the step that parses it: it read no
\* history, called no provider function (lastCall is untouched), sent no
\* query to the store and wrote no row. A feedback without a message id or
\* with a rating that is not good or bad is answered with a 400 and leaves
\* the ledger as it is.
C24_InvalidInputRejected ==
  [][/\ \A r \in Requests :
          input'[r] # Nil /\ input'[r].prompt = "" =>
            /\ response'[r] # Nil /\ response'[r].status = 400
            /\ pc'[r] = "done"
            /\ chatHistory'[r] = << >>
            /\ log'[r].fn = None /\ log'[r].gates = 0 /\ ~log'[r].queryIssued
            /\ input[r] # input'[r] => /\ ledger' = ledger
                                       /\ lastCallAge' = lastCallAge
     /\ Replied("feedback")' /\ (reply'.messageId = 0 \/ reply'.answerVal \notin Ratings) =>
          /\ reply'.status = 400
          /\ ledger' = ledger]_vars

\* a request without a prompt was rejected, and then a feedback on an
\* assistant row with a rating that is neither good nor bad
C24_Witness ==
  /\ input["r1"] # Nil /\ input["r1"].prompt = ""
  /\ response["r1"].status = 400
  /\ Replied("feedback")
  /\ reply.status = 400
  /\ reply.answerVal = "fine"
  /\ \E i \in AssistantRows : ledger[i].id = reply.messageId


\* ------------------------------------------------- the steps of a request
\* the external steps of the request of r, in the order of the handler
StepsOf(r) ==
  (IF input[r].sessionId # NoSession THEN <<"history">> ELSE << >>)
    \o <<"refine", "embed", "query", "synth", "user", "assistant">>

IsPrefix(a, b) == Len(a) <= Len(b) /\ SubSeq(b, 1, Len(a)) = a

\* the step of r has returned: the handler holds its result
Returned(r, step) ==
  CASE step = "history" -> pc[r] # "history"
    [] step = "refine" -> cleanedPrompt[r] # Nil
    [] step = "embed" -> promptEmbedding[r] # Nil
    [] step = "query" -> results[r] # Nil
    [] step = "synth" -> answer[r] # Nil
    [] step = "user" -> log[r].writes # << >> /\ log[r].writes[Len(log[r].writes)][1] = "user"
    [] OTHER -> FALSE

\* r is between the read of its history and its answer
Underway(r) == pc[r] \in {"refine", "embed", "search", "query", "synth"}

\* C25: the external steps of a request are taken in the order history read
\* (with a sessionId only), refine, embed, similarity query, synthesize, user
\* INSERT, assistant INSERT, and a step is taken only when the step before it
\* has returned; the embedding request carries the refined query; the chat
\* history the handler holds does not change from the history read to the
\* answer, and it is what the first provider request of
\* generateCleanUserPrompt and of generateAnswerFromResults carries.
C25_StepsInOrder ==
  [][\A r \in Requests :
       LET before == log[r].steps
           after == log'[r].steps
           request == log'[r].request
       IN /\ input'[r] # Nil => IsPrefix(after, StepsOf(r)')
          /\ Len(after) = Len(before) + 1 /\ before # << >> =>
               Returned(r, before[Len(before)])
          /\ Underway(r) /\ Underway(r)' => chatHistory'[r] = chatHistory[r]
          /\ request # Nil /\ request # log[r].request =>
               /\ request.fn = "embed" =>
                    request.text = cleanedPrompt[r].generatedUserPrompt
               /\ request.fn # "embed" /\ attempts'[r] = 1 =>
                    /\ request.text = input[r].prompt
                    /\ request.history = chatHistory[r]]_vars

\* the request of a conversation with rows is at its synthesis, which got the
\* history that was read, after an embedding of a refined query that is not
\* the prompt
C25_Witness ==
  /\ pc["r1"] = "synth" /\ phase["r1"] = "call" /\ attempts["r1"] = 1
  /\ log["r1"].steps = <<"history", "refine", "embed", "query", "synth">>
  /\ log["r1"].request.history # << >>
  /\ log["r1"].request.history = chatHistory["r1"]
  /\ cleanedPrompt["r1"].generatedUserPrompt # input["r1"].prompt


\* ------------------------------------------------ properties of retrieval
\* similaritySearch sent a query to the store
Queried == retrieved # Nil /\ retrieved.query # Nil

\* similaritySearch returned results
Retrieved == retrieved # Nil /\ "results" \in DOMAIN retrieved.result

\* C26: the query sent to the store carries the limit and the scoreThreshold
\* the caller supplied, whatever their value, 0 included; limit 10 and the
\* configured threshold stand in only for a value the caller did not supply.
C26_QueryCarriesSupplied ==
  Queried =>
    /\ retrieved.query.limit =
         IF retrieved.supplied.limit = NoLimit THEN 10 ELSE retrieved.supplied.limit
    /\ retrieved.query.score_threshold =
         IF retrieved.supplied.threshold = NoThreshold THEN scoreThreshold
                                                       ELSE retrieved.supplied.threshold

\* C27: whatever scoreThreshold is passed, with a store that applies the
\* score_threshold and the limit it is sent, similaritySearch returns no
\* result scored below the scoreThreshold passed, returns at most topK
\* results, and returns the store's points one for one in the store's order.
C27_ThresholdFiltering ==
  Retrieved =>
    LET found == retrieved.result.results
    IN /\ retrieved.scoreThreshold # NoThreshold =>
            \A i \in 1..Len(found) : found[i].score >= retrieved.scoreThreshold
       /\ Len(found) <= retrieved.topK
       /\ Len(found) = Len(retrieved.points)
       /\ \A i \in 1..Len(found) :
            /\ found[i].score = retrieved.points[i].score
            /\ found[i].payload = retrieved.points[i].payload
       /\ \A i \in 1..(Len(found) - 1) : found[i].score >= found[i + 1].score

\* a search with threshold 0.4 and limit 2 over the three points returned the
\* two points above the threshold, best first, and not the point scored 0.3
C27_Witness ==
  /\ Retrieved
  /\ retrieved.scoreThreshold = 40
  /\ retrieved.supplied.limit = 2
  /\ retrieved.stored = Ranked
  /\ retrieved.query.filter = NoFilter
  /\ retrieved.result.results =
       <<[score |-> 80, payload |-> "doc1"], [score |-> 50, payload |-> "doc2"]>>


\* the similarity query of r returned no point
FoundNothing(r) == results[r] # Nil /\ results[r].points = << >>

\* C28: a similarity query that returns no point is no error: the handler
\* goes on to the synthesis, and a request that found nothing ends only with
\* status 200 and count 0, after the synthesis, the user INSERT and the
\* assistant INSERT, the assistant row stored with an empty list of documents.
C28_EmptyResultIsNormal ==
  [][\A r \in Requests :
       /\ pc[r] = "query" /\ FoundNothing(r)' =>
            pc'[r] = "synth" /\ response'[r] = response[r]
       /\ FoundNothing(r) /\ pc[r] = "synth" /\ pc'[r] # "synth" =>
            pc'[r] = "storeUser" /\ answer'[r] # Nil
       /\ FoundNothing(r) /\ response'[r] # response[r] =>
            /\ response'[r].status = 200
            /\ response'[r].count = 0
            /\ response'[r].results = << >>
            /\ log'[r].steps = StepsOf(r)
            /\ Len(ledger') > Len(ledger) =>
                 /\ ledger'[Len(ledger')].role = "assistant"
                 /\ ledger'[Len(ledger')].relative_docs = [json |-> << >>]]_vars

\* a request that found nothing was answered 200 with count 0 and its two
\* rows are the last of the ledger, the assistant's with no document
C28_Witness ==
  /\ response["r1"] # Nil
  /\ response["r1"].status = 200
  /\ response["r1"].count = 0
  /\ Len(ledger) >= 2
  /\ ledger[Len(ledger) - 1].role = "user"
  /\ ledger[Len(ledger)].role = "assistant"
  /\ ledger[Len(ledger)].relative_docs = [json |-> << >>]
  /\ log["r1"].steps[Len(log["r1"].steps) - 3] = "query"


\* ----------------------------------------------- properties of setupQdrant
Configured == [size |-> EMBEDDING_DIM]

\* C29: setupQdrant sends deleteCollection only for a collection whose vectors
\* config has not the size of embeddingDim; on a collection of that size none
\* of its steps changes the collection or its points; a collection of another
\* size that getCollection returned is deleted and, the store willing,
\* created anew; a setupQdrant that returned leaves the collection at
\* embeddingDim; and a setupQdrant right after one that returned changes
\* nothing and deletes nothing.
C29_SetupIsIdempotent ==
  [][/\ spc'.at = "deleteCollection" =>
          collectionInfo # Nil /\ collectionInfo.size # EMBEDDING_DIM
     /\ ~AtRest /\ collectionInfo = Configured =>
          collectionInfo' = collectionInfo /\ points' = points
     /\ spc.at = "deleteCollection" /\ collectionInfo' # collectionInfo =>
          collectionInfo' = Nil /\ points' = {} /\ spc'.at = "createCollection"
     /\ spc.at = "createCollection" /\ collectionInfo = Nil =>
          \/ spc'.at = "done" /\ collectionInfo' = Configured /\ points' = {}
          \/ spc'.at = "failed" /\ collectionInfo' = Nil
     /\ spc'.at = "done" => collectionInfo' = Configured
     /\ ~AtRest /\ spc.again =>
          /\ collectionInfo' = collectionInfo /\ points' = points
          /\ spc'.at \in {"done", "createCollection", "failed"}
          /\ ~spc'.dropped]_vars

\* a setupQdrant that followed one that had returned has returned, the
\* points stored in between in their place
C29_Witness ==
  /\ spc = [at |-> "done", again |-> TRUE, dropped |-> FALSE]
  /\ points # {}
  /\ collectionInfo = Configured


\* ----------------------------------------------- the models of a stored row
\* C30: every stored row, of the user and of the assistant, has the
\* embedding model's identifier in emb_model and the generation model's
\* identifier in gen_model.
C30_ModelsNotSwapped ==
  \A i \in 1..Len(ledger) :
    /\ ledger[i].emb_model = EMBEDDING_MODEL
    /\ ledger[i].gen_model = GENERATIVE_MODEL


\* -------------------------------------------- the documents of a stored row
\* C31: in every ledger the user rows have no relative_docs and the assistant
\* rows have a list; the assistant row a request stores holds one entry for
\* each of the request's search results, in the order of the results, and is
\* the relativeDocs list of the request's response.
C31_DocsOnAssistantOnly ==
  [][/\ \A i \in 1..Len(ledger') :
          IF ledger'[i].role = "user" THEN ledger'[i].relative_docs = Nil
                                     ELSE ledger'[i].relative_docs # Nil
     /\ \A r \in Requests :
          pc[r] = "storeAssistant" /\ Len(ledger') > Len(ledger) =>
            LET row == ledger'[Len(ledger')]
                docs == row.relative_docs.json
            IN /\ row.role = "assistant"
               /\ Len(docs) = Len(results[r].points)
               /\ \A i \in 1..Len(docs) : docs[i].name = results[r].points[i]
               /\ response'[r].status = 200
               /\ docs = response'[r].relativeDocs]_vars

\* a request with two search results was answered and its assistant row holds
\* the two documents of the response, after a user row without documents
C31_Witness ==
  /\ response["r1"] # Nil
  /\ response["r1"].status = 200
  /\ response["r1"].relativeDocs = <<[name |-> "doc1"], [name |-> "doc2"]>>
  /\ Len(ledger) >= 2
  /\ ledger[Len(ledger)].role = "assistant"
  /\ ledger[Len(ledger)].relative_docs = [json |-> response["r1"].relativeDocs]
  /\ ledger[Len(ledger) - 1].role = "user"
  /\ ledger[Len(ledger) - 1].relative_docs = Nil


\* ------------------------------------------ the requests sent to the provider
\* the request of generateAnswerFromResults of r is at the provider
SynthRequested(r) == log[r].request # Nil /\ log[r].request.fn = "synth"

\* C32: the request generateAnswerFromResults sends holds every search
\* result it was called with, so that requests for different results differ.
C32_RequestHoldsPassages ==
  \A r \in Requests :
    SynthRequested(r) =>
      \A i \in 1..Len(results[r].points) :
        \E j \in 1..Len(log[r].request.passages) :
          log[r].request.passages[j] = results[r].points[i]


\* ------------------------------------------------------- the pacing state
\* the provider call of r returns, with an answer or an error
CallReturned(r) == phase[r] = "call" /\ phase'[r] # "call"

\* C33 as worded: lastCall is updated after every provider call, that is,
\* when a call has returned lastCall is the time of its return.
C33_UpdatedAfterCall ==
  [][\A r \in Requests : CallReturned(r) => lastCallAge' = 0]_vars

\* C33, amended: lastCall starts at its initial value (0, an age beyond
\* minDelayMs); every provider call, of createEmbedding,
\* generateCleanUserPrompt and generateAnswerFromResults, a first call or a
\* call after a 429, goes out of rateLimit, which has read lastCall (it lets
\* a call go at once only when lastCall is minDelayMs old, and else after its
\* sleep) and which sets lastCall to the time the call goes out; nothing sets
\* lastCall but rateLimit, and the return of a call leaves it alone.
C33_PacingLifecycle ==
  /\ lastCallAge = minDelayMs
  /\ [][/\ \A r \in Requests :
            /\ CallIssued(r) =>
                 /\ pc[r] \in GatedFns
                 /\ \/ phase[r] = "gate" /\ lastCallAge >= minDelayMs
                    \/ phase[r] = "sleep" /\ timer[r] = 0
                 /\ lastCallAge' = 0
            /\ CallReturned(r) => lastCallAge' = lastCallAge
        /\ lastCallAge' # lastCallAge =>
             \/ \E r \in Requests : CallIssued(r)
             \/ lastCallAge' = Min(minDelayMs, lastCallAge + TickMs)]_vars

\* the call after a 429 is out: it left rateLimit, which set lastCall
C33_Witness ==
  \E r \in Requests :
    /\ phase[r] = "call"
    /\ attempts[r] = 2
    /\ "throttle" \in log[r].outcomes
    /\ lastCallAge = 0


\* C35: every request generateCleanUserPrompt or generateAnswerFromResults
\* has at the provider, the first and the ones after a 429, carries the
\* query and the chat history the handler called the function with.
C35_RetryRepeatsRequest ==
  \A r \in Requests :
    log[r].request # Nil /\ log[r].request.fn \in {"refine", "synth"} =>
      /\ log[r].request.text = input[r].prompt
      /\ log[r].request.history = chatHistory[r]


\* ------------------------------------------------ the tokens of a stored row
\* the latest row of the request r with the role, in the ledger rows
LatestRow(rows, r, role) ==
  LET ids == {i \in 1..Len(rows) : rows[i].req = r /\ rows[i].role = role}
  IN rows[CHOOSE i \in ids : \A k \in ids : k <= i]

\* C36: every row has non-negative integers as emb_tokens and gen_tokens and
\* an assistant row has emb_tokens 0; when a request has stored its user row
\* and its assistant row, the gen_tokens of the two add up to the
\* genTokensUsed of its response (the tokens of the refine step plus those of
\* the synthesis) and the emb_tokens of the user row is its embTokensUsed.
C36_TokensConserved ==
  [][/\ \A i \in 1..Len(ledger') :
          /\ ledger'[i].emb_tokens \in Nat
          /\ ledger'[i].gen_tokens \in Nat
          /\ ledger'[i].role = "assistant" => ledger'[i].emb_tokens = 0
     /\ \A r \in Requests :
          /\ pc[r] = "storeAssistant"
          /\ log[r].writes[Len(log[r].writes)] = <<"user", TRUE>>
          /\ Len(ledger') > Len(ledger)
          => LET user == LatestRow(ledger', r, "user")
                 assistant == LatestRow(ledger', r, "assistant")
             IN /\ response'[r].genTokensUsed = cleanedPrompt[r].tokensUsed + answer[r].tokensUsed
                /\ response'[r].embTokensUsed = promptEmbedding[r].tokensUsed
                /\ user.gen_tokens + assistant.gen_tokens = response'[r].genTokensUsed
                /\ user.emb_tokens = response'[r].embTokensUsed
                /\ assistant.emb_tokens = 0]_vars

\* a request whose refine step and synthesis used 7 tokens each and whose
\* embedding used 5 was answered with 14 and 5, its rows holding 7, 5 and 7, 0
C36_Witness ==
  /\ response["r1"] # Nil
  /\ response["r1"].status = 200
  /\ response["r1"].genTokensUsed = 14
  /\ response["r1"].embTokensUsed = 5
  /\ Len(ledger) >= 2
  /\ ledger[Len(ledger) - 1].role = "user"
  /\ ledger[Len(ledger) - 1].gen_tokens = 7
  /\ ledger[Len(ledger) - 1].emb_tokens = 5
  /\ ledger[Len(ledger)].role = "assistant"
  /\ ledger[Len(ledger)].gen_tokens = 7
  /\ ledger[Len(ledger)].emb_tokens = 0


\* -------------------------------------------- properties of clearCollection
\* C37: when clearCollection returns without an error the collection holds
\* no point, however many it held.
C37_ClearEmpties ==
  [][clearing'.at = "done" /\ clearing.at # "done" => points' = {}]_vars


\* ------------------------------------------- properties of the long texts
\* the chunk is one of those handed to generateEmbeddingsForChunks
Embedded(chunk) == \E k \in 1..Len(safeChunks) : safeChunks[k] = chunk

\* C34: of every chunk built, whatever its length, the first
\* min(length, MAX_TOKENS_PER_EMBEDDING) characters are the input of its
\* embedding, and no chunk is left without an embedding for its length.
C34_TruncatedNeverSkipped ==
  \A k \in 1..Len(documents) :
    LET text == documents[k].pageContent
        sent == embeddingInput(text)
    IN /\ Len(sent) = Min(Len(text), MAX_TOKENS_PER_EMBEDDING)
       /\ sent \o SubSeq(text, Len(sent) + 1, Len(text)) = text
       /\ Embedded(documents[k])

\* the file whose chunks are at hand has been stored
Ingested == ipc = "idle" /\ source # Nil /\ stored = source.fileName

\* C38: once a file is ingested, every page chunk and paragraph chunk of it
\* in the collection has as parentIds[0] the chunkId of a chunk that is in
\* the collection too.
C38_ParentsStored ==
  Ingested =>
    \A point \in points :
      /\ point.payload.documentHash = source.documentHash
      /\ point.payload.chunkLevel \in {"page", "paragraph"}
      => \E parent \in points : parent.payload.chunkId = point.payload.parentIds[1]

=============================================================================
